---- MODULE Spec2Model ----
(***************************************************************************)
(* State-machine model of the metronome panel AdvancedMetronomeUI          *)
(* (src/src/AdvancedMetronomeUI.jsx): the transport (startTransport,       *)
(* stopTransport, reset), the look-ahead scheduler (schedulerLoop) with    *)
(* its timing model (getTimingSnapshot) and the configuration store        *)
(* (normalizeConfig, applyConfig, tap, bumpBpm).                           *)
(*                                                                         *)
(* Time.  AudioContext.currentTime is a double, in seconds.  The model     *)
(* keeps times in fixed point: one tick is 1/TicksPerSecond s and every    *)
(* division truncates.  TicksPerSecond = 2^7 * 3^2 * 5^3, so the           *)
(* durations of the configurations of MountConfigs are exact.              *)
(*                                                                         *)
(* React.  A handler run by a DOM event is one action: React renders and   *)
(* runs the effects of a discrete event before the handler's task ends,    *)
(* so the synced refs (useSyncedRef) equal the state at the end of it.     *)
(* A state update made outside an event (the requestAnimationFrame         *)
(* callback schedulerLoop) is rendered in a later task: bpmRef then lags   *)
(* bpm until the action Render.  So is a state update made by an effect:   *)
(* the accents effect (lines 300-304) runs after the render that changed   *)
(* beats, when beatsRef is already written, and the setAccents updater it  *)
(* queues is applied by a later render (the action Render).                *)
(*                                                                         *)
(* Web Audio.  resume() on a suspended context returns a promise that      *)
(* stays pending until the device resumes; the promises of all pending     *)
(* resume() calls are then settled in one task, in order, so the           *)
(* continuations of the awaiting startTransport calls run back to back.    *)
(***************************************************************************)
EXTENDS Integers, Sequences, FiniteSets, TLC

VARIABLES
  \* ---- React state (useState), lines 238-269
  isRunning, tempoLock, bpm, ts, subdivision, swing, volume,
  polyEnabled, polyBeats, polySubdivision, polyVolume, accents,
  trainingMode, trainingStep, trainingEvery, tapHistory,
  visualPulse,         \* useState(true), line 254
  phase,               \* published visual phase, in 1/PhaseScale percent; phaseRef follows it
  currentBeat,         \* published beat index; currentBeatRef follows it
  \* ---- refs (useRef / useSyncedRef), lines 270-298
  audioContext,        \* audioContextRef: "null", or the context's state
  isRunningRef,
  nextNoteTime, currentStep, measureStart, measureCount,
  polyNextNoteTime, polyStep,
  rafIdRef,            \* "null" | "armed" (names a pending callback) | "fired"
  bpmRef,              \* useSyncedRef(bpm): bpm as of the last render's effects
  bpmFrac, bpmRefFrac, \* what bpm and bpmRef hold above their integer parts, in 1/FracDen
  beatsRef, unitRef,   \* useSyncedRef(beats), useSyncedRef(unit)
  presetsRef,
  clipboard,           \* the value whose JSON text the clipboard holds, or Undefined
  accentsQueue,        \* beats of the setAccents updaters queued by the accents effect
  \* ---- environment
  mounted,             \* the component is mounted
  now,                 \* context.currentTime, in ticks
  wallClock,           \* Date.now() at the last press of the tap button, in ms
  userOps,             \* handlers the user has run (starts, stops, edits)
  awaiting,            \* startTransport calls suspended at `await context.resume()`
  rafPending,          \* requestAnimationFrame callbacks armed and not yet run
  \* ---- history (observation only; no action reads them)
  lastOp,              \* the transport, scheduler or clock step that ran last
  stopReturned,        \* stopTransport has returned and no start was called since
  resetReturned,       \* reset has returned and no start was called since
  clickedSinceStop,    \* a click was dispatched since stopTransport last returned
  epochsSinceStop,     \* runtime epochs created since stopTransport last returned
  epochStart,          \* context.currentTime when the current epoch was created
  mainPrev, mainOut,   \* main clicks: last one before the latest pass / of that pass
  polyPrev, polyOut    \* poly clicks: the same

lockVars == <<tempoLock>>
tempoVars == <<bpm, bpmRef, bpmFrac, bpmRefFrac>>
meterVars == <<ts, beatsRef, unitRef, accents, accentsQueue>>
feelVars == <<subdivision, swing>>
levelVars == <<volume, polyVolume>>
polyVars == <<polyEnabled, polyBeats, polySubdivision>>
trainingVars == <<trainingMode, trainingStep, trainingEvery>>
tapVars == <<tapHistory, wallClock>>
pulseVars == <<visualPulse>>
configVars == <<lockVars, tempoVars, meterVars, feelVars, levelVars, polyVars,
                trainingVars, tapVars, pulseVars>>
displayVars == <<phase, currentBeat>>
mainRuntime == <<nextNoteTime, currentStep, measureStart, measureCount>>
polyRuntime == <<polyNextNoteTime, polyStep>>
runtimeVars == <<mainRuntime, polyRuntime>>
transportVars == <<isRunning, isRunningRef, rafIdRef, rafPending, awaiting,
                   audioContext, mounted>>
logVars == <<mainPrev, mainOut, polyPrev, polyOut>>
storeVars == <<presetsRef, clipboard>>
histVars == <<stopReturned, resetReturned, clickedSinceStop, epochsSinceStop, epochStart>>
vars == <<configVars, runtimeVars, transportVars, logVars, displayVars, histVars,
          storeVars, now, userOps, lastOp>>

----------------------------------------------------------------------------
(* Units and bounds *)

TicksPerSecond == 128 * 9 * 125

\* The clock advances in quanta of 1/4 s, up to MaxTicks quanta.
MaxTicks == 9
TickQuantum == TicksPerSecond \div 4
MaxNow == MaxTicks * TickQuantum

\* Handlers the user runs in one run (taps apart), and the clock's range
\* under configuration edits.
MaxUserOps == 4
MaxLiveTicks == 3
MaxLiveNow == MaxLiveTicks * TickQuantum

\* Presses in a run of taps (the run ends at MaxTapClock ms), and how far from
\* an end of the tempo range the +1 / -1 buttons are pressed.
MaxTaps == 7
MaxTapClock == MaxTaps * 500
MaxBumpRun == 1

\* const scheduleAhead = 0.12;  nextNoteTime = currentTime + 0.05;  currentTime + 0.01
scheduleAhead == (12 * TicksPerSecond) \div 100
startOffset == (5 * TicksPerSecond) \div 100
polyResyncOffset == TicksPerSecond \div 100

\* The visual phase is a percentage; the model counts it in 1/PhaseScale
\* percent.  Math.abs(nextPhase - phaseRef.current) > 0.1
PhaseScale == 10 * 10
phaseThreshold == PhaseScale \div 10

----------------------------------------------------------------------------
(* Pure helpers *)

Min(a, b) == IF a < b THEN a ELSE b
Max(a, b) == IF a > b THEN a ELSE b

clampNoUpper(n, min, max) == Max(min, n)
clamp(n, min, max) == Max(min, Min(max, n))

Last(s) == s[Len(s)]

\* A time signature is a string; the model spells it as its characters so that
\* parseBeats can split and parse it.
Sig(top, bottom) == top \o <<"/">> \o bottom

TIME_SIGNATURES ==
  << Sig(<<"2">>, <<"2">>), Sig(<<"2">>, <<"4">>), Sig(<<"3">>, <<"4">>),
     Sig(<<"4">>, <<"4">>), Sig(<<"5">>, <<"4">>), Sig(<<"6">>, <<"4">>),
     Sig(<<"7">>, <<"4">>), Sig(<<"3">>, <<"8">>), Sig(<<"5">>, <<"8">>),
     Sig(<<"6">>, <<"8">>), Sig(<<"7">>, <<"8">>), Sig(<<"9">>, <<"8">>),
     Sig(<<"1","2">>, <<"8">>), Sig(<<"5">>, <<"1","6">>),
     Sig(<<"7">>, <<"1","6">>), Sig(<<"9">>, <<"1","6">>),
     Sig(<<"1","1">>, <<"1","6">>), Sig(<<"1","3">>, <<"1","6">>) >>

SUBDIVISIONS == <<"1/4", "1/8", "1/8T", "1/16", "1/16T", "1/32", "1/32T", "1/64">>

Includes(list, x) == \E i \in 1..Len(list) : list[i] = x

DigitOf == [c \in {"0","1","2","3","4","5","6","7","8","9"} |->
              CASE c = "0" -> 0 [] c = "1" -> 1 [] c = "2" -> 2 [] c = "3" -> 3
                [] c = "4" -> 4 [] c = "5" -> 5 [] c = "6" -> 6 [] c = "7" -> 7
                [] c = "8" -> 8 [] c = "9" -> 9]
IsDigit(c) == c \in DOMAIN DigitOf
DigitValue(c) == DigitOf[c]

\* ts.split("/"): the pieces between the slashes.
RECURSIVE SplitSlash(_, _)
SplitSlash(s, piece) ==
  IF s = <<>> THEN <<piece>>
  ELSE IF Head(s) = "/" THEN <<piece>> \o SplitSlash(Tail(s), <<>>)
  ELSE SplitSlash(Tail(s), Append(piece, Head(s)))

\* parseInt(x, 10): leading blanks, an optional sign, then the longest run of
\* digits; NaN (here -1 in field nan) when there is no digit.
RECURSIVE DigitRun(_, _, _)
DigitRun(s, acc, seen) ==
  IF s = <<>> \/ ~IsDigit(Head(s)) THEN [nan |-> ~seen, value |-> acc]
  ELSE DigitRun(Tail(s), 10 * acc + DigitValue(Head(s)), TRUE)

RECURSIVE SkipBlanks(_)
SkipBlanks(s) == IF s # <<>> /\ Head(s) = " " THEN SkipBlanks(Tail(s)) ELSE s

parseInt10(x) ==
  LET s == SkipBlanks(x)
      neg == s # <<>> /\ Head(s) = "-"
      body == IF s # <<>> /\ Head(s) \in {"-", "+"} THEN Tail(s) ELSE s
      run == DigitRun(body, 0, FALSE)
  IN [nan |-> run.nan, value |-> IF neg THEN 0 - run.value ELSE run.value]

parseBeats(sig) ==
  LET parts == SplitSlash(sig, <<>>)
      top == parseInt10(parts[1])
      bottom == IF Len(parts) >= 2 THEN parseInt10(parts[2]) ELSE [nan |-> TRUE, value |-> 0]
  IN [beats |-> IF top.nan THEN 4 ELSE top.value,
      unit |-> IF bottom.nan THEN 4 ELSE bottom.value]

getSubdivisionsPerBeatTripletsAsDuplets(value) ==
  CASE value \in {"1/4"} -> 1
    [] value \in {"1/8", "1/8T"} -> 2
    [] value \in {"1/16", "1/16T"} -> 4
    [] value \in {"1/32", "1/32T"} -> 8
    [] value = "1/64" -> 16
    [] OTHER -> 2
getSubdivisionsPerBeat(value) ==
  CASE value = "1/4" -> 1
    [] value = "1/8" -> 2
    [] value = "1/8T" -> 3
    [] value = "1/16" -> 4
    [] value = "1/16T" -> 6
    [] value = "1/32" -> 8
    [] value = "1/32T" -> 12
    [] value = "1/64" -> 16
    [] OTHER -> 2

\* buildAccentArray(length, base): base?.[i] ?? i === 0
buildAccentArrayDownbeatOnly(length, base) ==
  [i \in 1..length |-> i = 1]
buildAccentArray(length, base) ==
  [i \in 1..length |-> IF i <= Len(base) THEN base[i] ELSE i = 1]

----------------------------------------------------------------------------
(* Raw (untrusted) values of an imported or stored payload, tagged with     *)
(* their JavaScript type.  A string's v is the text in the spelling of the  *)
(* field it is read as.                                                     *)

Undefined == [t |-> "undefined"]
Null == [t |-> "null"]
NaN == [t |-> "NaN"]
Num(n) == [t |-> "number", v |-> n]
\* A number n + f/FracDen with 0 < f < FracDen, as a JSON text can carry it.
FracDen == 2
NumFrac(n, f) == [t |-> "number", v |-> n, frac |-> f]
NumOf(n, f) == IF f = 0 THEN Num(n) ELSE NumFrac(n, f)
FracOf(x) == IF x.t = "number" /\ "frac" \in DOMAIN x THEN x.frac ELSE 0
Str(s) == [t |-> "string", v |-> s]
Bool(b) == [t |-> "boolean", v |-> b]
Arr(a) == [t |-> "array", v |-> a]
Obj(r) == [t |-> "object", v |-> r]

\* raw?.field
Field(raw, f) ==
  IF raw.t = "object" /\ f \in DOMAIN raw.v THEN raw.v[f] ELSE Undefined

\* Number(x); the strings of the model's payloads are not numerals.
ToNumber(x) ==
  CASE x.t = "number" -> [nan |-> FALSE, v |-> x.v, frac |-> FracOf(x)]
    [] x.t = "null" -> [nan |-> FALSE, v |-> 0, frac |-> 0]
    [] x.t = "boolean" -> [nan |-> FALSE, v |-> IF x.v THEN 1 ELSE 0, frac |-> 0]
    [] OTHER -> [nan |-> TRUE, v |-> 0, frac |-> 0]

\* Number(x) || fallback
NumberOr(x, fallback) ==
  LET n == ToNumber(x)
  IN IF n.nan \/ (n.v = 0 /\ n.frac = 0) THEN fallback ELSE n.v

\* The fractional part of clamp(Number(x) || fallback, lo, hi), in 1/FracDen,
\* for an integer fallback and integer limits.
clampFrac(v, f, lo, hi) == IF v < lo \/ v >= hi THEN 0 ELSE f
NumberOrFrac(x, lo, hi) ==
  LET n == ToNumber(x)
  IN IF n.nan \/ (n.v = 0 /\ n.frac = 0) THEN 0 ELSE clampFrac(n.v, n.frac, lo, hi)

\* Boolean(x)
ToBoolean(x) ==
  CASE x.t = "boolean" -> x.v
    [] x.t = "number" -> x.v # 0 \/ FracOf(x) # 0
    [] x.t = "string" -> x.v # "" /\ x.v # <<>>
    [] x.t \in {"array", "object"} -> TRUE
    [] OTHER -> FALSE

\* Boolean(x ?? fallback)
BooleanOr(x, fallback) ==
  IF x.t \in {"undefined", "null"} THEN fallback ELSE ToBoolean(x)

\* normalizeBooleanArray(value, length)
normalizeBooleanArrayKeepLength(value, length) ==
  LET list == IF value.t = "array" THEN value.v ELSE <<>>
  IN [i \in 1..Len(list) |-> ToBoolean(list[i])]
normalizeBooleanArray(value, length) ==
  LET list == IF value.t = "array" THEN value.v ELSE <<>>
  IN [i \in 1..length |-> IF i <= Len(list) THEN ToBoolean(list[i]) ELSE FALSE]

normalizeConfig(raw) ==
  LET rts == Field(raw, "ts")
      sig == IF rts.t = "string" /\ Includes(TIME_SIGNATURES, rts.v)
             THEN rts.v ELSE Sig(<<"4">>, <<"4">>)
      rsub == Field(raw, "subdivision")
      rpsub == Field(raw, "polySubdivision")
  IN [bpm |-> clamp(NumberOr(Field(raw, "bpm"), 120), 20, 300),
      bpmFrac |-> NumberOrFrac(Field(raw, "bpm"), 20, 300),
      ts |-> sig,
      subdivision |-> IF rsub.t = "string" /\ Includes(SUBDIVISIONS, rsub.v)
                      THEN rsub.v ELSE "1/8",
      swing |-> clamp(NumberOr(Field(raw, "swing"), 0), 0, 75),
      volume |-> clamp(NumberOr(Field(raw, "volume"), 70), 0, 100),
      polyEnabled |-> BooleanOr(Field(raw, "polyEnabled"), FALSE),
      polyBeats |-> clamp(NumberOr(Field(raw, "polyBeats"), 3), 2, 12),
      polySubdivision |-> IF rpsub.t = "string" /\ Includes(SUBDIVISIONS, rpsub.v)
                          THEN rpsub.v ELSE "1/4",
      polyVolume |-> clamp(NumberOr(Field(raw, "polyVolume"), 55), 0, 100),
      visualPulse |-> BooleanOr(Field(raw, "visualPulse"), TRUE),
      accents |-> normalizeBooleanArray(Field(raw, "accents"), parseBeats(sig).beats)]

\* A normalized configuration as the raw object applyConfig / JSON carries.
AsRaw(c) ==
  Obj([bpm |-> NumOf(c.bpm, c.bpmFrac), ts |-> Str(c.ts), subdivision |-> Str(c.subdivision),
       swing |-> Num(c.swing), volume |-> Num(c.volume),
       polyEnabled |-> Bool(c.polyEnabled), polyBeats |-> Num(c.polyBeats),
       polySubdivision |-> Str(c.polySubdivision), polyVolume |-> Num(c.polyVolume),
       visualPulse |-> Bool(c.visualPulse),
       accents |-> Arr([i \in 1..Len(c.accents) |-> Bool(c.accents[i])])])

----------------------------------------------------------------------------
(* const { beats, unit } = useMemo(() => parseBeats(ts), [ts]), and the     *)
(* synced refs that no action can leave behind their state: every writer   *)
(* of these states is a DOM event handler.  (beatsRef and unitRef are      *)
(* variables, written with ts.)                                            *)

beats == parseBeats(ts).beats
unit == parseBeats(ts).unit
subdivisionRef == subdivision
swingRef == swing
accentsRef == accents
polyEnabledRef == polyEnabled
polyBeatsRef == polyBeats
polySubdivisionRef == polySubdivision
polyVolumeRef == polyVolume
tempoLockRef == tempoLock
trainingModeRef == trainingMode
trainingStepRef == trainingStep
trainingEveryRef == trainingEvery
visualPulseRef == visualPulse
phaseRef == phase
currentBeatRef == currentBeat

----------------------------------------------------------------------------
(* Timing model.  Swing factors are kept as numerators over 200:           *)
(* 1 + swingAmount * 0.5 with swingAmount = swing / 100 is (200 + swing)/200. *)

SwingDen == 200

timingForQuarterNote(bpmV, unitV, subdivisionV, swingV) ==
  LET beatDuration == (60 * TicksPerSecond) \div bpmV
      subdivisionsPerBeat == getSubdivisionsPerBeat(subdivisionV)
  IN [beatDuration |-> beatDuration,
      subdivisionsPerBeat |-> subdivisionsPerBeat,
      baseSubdivision |-> beatDuration \div subdivisionsPerBeat,
      swingEnabled |-> FALSE,
      swingFactors |-> <<SwingDen, SwingDen>>]
\* getTimingSnapshot's arithmetic at a tempo of bpmV + bpmFracV/FracDen.
timingAt(bpmV, bpmFracV, unitV, subdivisionV, swingV) ==
  LET beatDuration == (240 * TicksPerSecond * FracDen)
                        \div ((bpmV * FracDen + bpmFracV) * unitV)
      subdivisionsPerBeat == getSubdivisionsPerBeat(subdivisionV)
      swingAmount == Min(75, Max(0, swingV))
      swingEnabled == swingAmount > 0 /\ subdivisionsPerBeat % 2 = 0
  IN [beatDuration |-> beatDuration,
      subdivisionsPerBeat |-> subdivisionsPerBeat,
      baseSubdivision |-> beatDuration \div subdivisionsPerBeat,
      swingEnabled |-> swingEnabled,
      swingFactors |-> IF swingEnabled
                       THEN <<SwingDen + swingAmount, SwingDen - swingAmount>>
                       ELSE <<SwingDen, SwingDen>>]

\* const tempoMs = useMemo(() => (60000 / bpm) * (4 / unit), [bpm, unit]), line
\* 673, in 1/(TicksPerSecond / 1000) ms, so that it is beatDuration * 1000
\* when both are the same number.
timingFor(bpmV, unitV, subdivisionV, swingV) ==
  timingAt(bpmV, 0, unitV, subdivisionV, swingV)

tempoMsFor(bpmV, unitV) == (240000 * (TicksPerSecond \div 1000)) \div (bpmV * unitV)
tempoMs ==
  IF bpmFrac = 0 THEN tempoMsFor(bpm, unit)
  ELSE (240000 * (TicksPerSecond \div 1000) * FracDen) \div ((bpm * FracDen + bpmFrac) * unit)

getTimingSnapshotSwingAnyParity ==
  LET t == timingAt(bpmRef, bpmRefFrac, unitRef, subdivisionRef, swingRef)
  IN [t EXCEPT !.swingEnabled = swingRef > 0,
               !.swingFactors = <<SwingDen + swingRef, SwingDen - swingRef>>]
\* A snapshot whose tempo is the one the component was mounted with.
getTimingSnapshotAtMount == timingAt(120, 0, unitRef, subdivisionRef, swingRef)
getTimingSnapshot == timingAt(bpmRef, bpmRefFrac, unitRef, subdivisionRef, swingRef)

\* timing.baseSubdivision * (timing.swingEnabled ? timing.swingFactors[stepIndex % 2] : 1)
stepDurationSwapped(timing, stepIndex) ==
  (timing.baseSubdivision *
     (IF timing.swingEnabled THEN timing.swingFactors[((stepIndex + 1) % 2) + 1] ELSE SwingDen))
  \div SwingDen
stepDurationOf(timing, stepIndex) ==
  (timing.baseSubdivision *
     (IF timing.swingEnabled THEN timing.swingFactors[(stepIndex % 2) + 1] ELSE SwingDen))
  \div SwingDen

----------------------------------------------------------------------------
(* schedulerLoop.  A pass works on a record of the runtime refs:           *)
(*   next, step, mstart, mcount : nextNoteTimeRef, currentStepRef,         *)
(*                                measureStartRef, measureCountRef         *)
(*   pnext, pstep               : polyNextNoteTimeRef, polyStepRef         *)
(*   bpm                        : the bpm state after the setBpm calls     *)
(*   cbeat                      : currentBeatRef                           *)
(*   main, poly                 : the clicks handed to scheduleClick       *)

\* const accentsForBeat = accentsRef.current?.[beatIndex] ?? beatIndex === 0;
\* const accented = isBeatStart && accentsForBeat;
stepAccentedAnySub(beatIndex, subIndex) ==
  IF beatIndex + 1 <= Len(accentsRef) THEN accentsRef[beatIndex + 1] ELSE beatIndex = 0
stepAccentedMissingAsAccent(beatIndex, subIndex) ==
  subIndex = 0 /\ (beatIndex + 1 <= Len(accentsRef) => accentsRef[beatIndex + 1])
stepAccented(beatIndex, subIndex) ==
  LET accentsForBeat == IF beatIndex + 1 <= Len(accentsRef)
                        THEN accentsRef[beatIndex + 1] ELSE beatIndex = 0
      isBeatStart == subIndex = 0
  IN isBeatStart /\ accentsForBeat

\* One iteration of the main while loop (lines 530-569).
mainStep(r, timing) ==
  LET totalSteps == Max(1, beatsRef * timing.subdivisionsPerBeat)
      stepIndex == r.step % totalSteps
      beatIndex == stepIndex \div timing.subdivisionsPerBeat
      subIndex == stepIndex % timing.subdivisionsPerBeat
      accented == stepAccented(beatIndex, subIndex)
      boundary == stepIndex = 0
      mcount == IF boundary THEN r.mcount + 1 ELSE r.mcount
      bump == /\ boundary
              /\ trainingModeRef
              /\ trainingEveryRef > 0
              /\ mcount % trainingEveryRef = 0
              /\ ~tempoLockRef
  IN [next |-> r.next + stepDurationOf(timing, stepIndex),
      step |-> stepIndex + 1,
      mstart |-> IF boundary THEN r.next ELSE r.mstart,
      mcount |-> mcount,
      pnext |-> IF boundary /\ polyEnabledRef THEN r.next ELSE r.pnext,
      pstep |-> IF boundary /\ polyEnabledRef THEN 0 ELSE r.pstep,
      bpm |-> IF bump THEN clamp(bpmRef + trainingStepRef, 20, 300) ELSE r.bpm,
      bpmFrac |-> IF bump THEN clampFrac(bpmRef + trainingStepRef, bpmRefFrac, 20, 300)
                  ELSE r.bpmFrac,
      cbeat |-> IF subIndex = 0 /\ beatIndex # r.cbeat THEN beatIndex ELSE r.cbeat,
      main |-> Append(r.main, [time |-> r.next, stepIndex |-> stepIndex,
                               beatIndex |-> beatIndex, subIndex |-> subIndex,
                               accented |-> accented]),
      poly |-> r.poly,
      spins |-> r.spins]

\* while (nextNoteTimeRef.current < context.currentTime + scheduleAhead)
RECURSIVE mainFillFarther(_, _)
mainFillFarther(r, timing) ==
  IF r.next < now + 2 * scheduleAhead
  THEN mainFillFarther(mainStep(r, timing), timing) ELSE r
\* A fill that drops the steps whose time is already behind the clock.
RECURSIVE mainFillDroppingPast(_, _)
mainFillDroppingPast(r, timing) ==
  IF r.next < now + scheduleAhead
  THEN mainFillDroppingPast(IF r.next < now
                            THEN [mainStep(r, timing) EXCEPT !.main = r.main]
                            ELSE mainStep(r, timing), timing)
  ELSE r
RECURSIVE mainFill(_, _)
mainFill(r, timing) ==
  IF r.next < now + scheduleAhead THEN mainFill(mainStep(r, timing), timing) ELSE r

polyTotalSteps == Max(1, polyBeatsRef * getSubdivisionsPerBeat(polySubdivisionRef))
polyStepDurationOf(timing) == (timing.beatDuration * beatsRef) \div polyTotalSteps

\* One iteration of the poly while loop (lines 582-592).
polyStepOnce(r, timing) ==
  LET polySubdivisions == getSubdivisionsPerBeat(polySubdivisionRef)
      stepIndex == r.pstep % polyTotalSteps
      subIndex == stepIndex % polySubdivisions
      polyStepDuration == polyStepDurationOf(timing)
      click == [time |-> r.pnext, stepIndex |-> stepIndex, subIndex |-> subIndex,
                accented |-> subIndex = 0, intensity |-> polyVolumeRef]
  IN [r EXCEPT !.pnext = r.pnext + polyStepDuration,
               !.pstep = stepIndex + 1,
               !.poly = IF polyStepDuration > 0 THEN Append(r.poly, click) ELSE r.poly]

\* while (polyNextNoteTimeRef.current < context.currentTime + scheduleAhead).
\* An iteration that does not raise the poly next time leaves the condition
\* of the loop true for good: the loop spins, and no value is returned.
RECURSIVE polyLoop(_, _)
polyLoop(r, timing) ==
  IF r.pnext < now + scheduleAhead
  THEN IF polyStepOnce(r, timing).pnext > r.pnext
       THEN polyLoop(polyStepOnce(r, timing), timing)
       ELSE [r EXCEPT !.spins = TRUE]
  ELSE r

\* if (polyNextNoteTimeRef.current < context.currentTime - scheduleAhead) { resync }
polyResyncNever(r) == r
polyResync(r) ==
  IF r.pnext < now - scheduleAhead
  THEN [r EXCEPT !.pnext = now + polyResyncOffset, !.pstep = 0]
  ELSE r

\* if (polyEnabledRef.current) { ... } (lines 572-594)
polyFill(r, timing) ==
  IF polyEnabledRef THEN polyLoop(polyResync(r), timing) ELSE r

\* The body of schedulerLoop between its guard and its re-arm.
schedulerPass ==
  LET timing == getTimingSnapshot
      r0 == [next |-> nextNoteTime, step |-> currentStep, mstart |-> measureStart,
             mcount |-> measureCount, pnext |-> polyNextNoteTime, pstep |-> polyStep,
             bpm |-> bpm, bpmFrac |-> bpmFrac, cbeat |-> currentBeatRef, main |-> <<>>, poly |-> <<>>,
             spins |-> FALSE]
  IN polyFill(mainFill(r0, timing), timing)

\* The visual pulse republished at every change, however small.
pulsePhaseEveryChange(r, timing) ==
  IF visualPulseRef
  THEN LET measureDuration == timing.beatDuration * beatsRef
           elapsed == Max(0, now - r.mstart)
           percent == elapsed * 100
           progress == IF measureDuration > 0
                       THEN (percent \div measureDuration) * PhaseScale
                            + ((percent % measureDuration) * PhaseScale) \div measureDuration
                       ELSE 0
       IN clamp(progress, 0, 100 * PhaseScale)
  ELSE 0

\* The visual pulse of a pass (lines 596-608), as the new phase: r is the
\* runtime after the fills.
pulsePhase(r, timing) ==
  IF visualPulseRef
  THEN LET measureDuration == timing.beatDuration * beatsRef
           elapsed == Max(0, now - r.mstart)
           percent == elapsed * 100
           progress == IF measureDuration > 0
                       THEN (percent \div measureDuration) * PhaseScale
                            + ((percent % measureDuration) * PhaseScale) \div measureDuration
                       ELSE 0
           nextPhase == clamp(progress, 0, 100 * PhaseScale)
           distance == IF nextPhase > phaseRef THEN nextPhase - phaseRef
                                               ELSE phaseRef - nextPhase
       IN IF distance > phaseThreshold THEN nextPhase ELSE phaseRef
  ELSE 0


----------------------------------------------------------------------------
(* Configuration store: applyConfig and the effects a render runs.         *)

DefaultConfig ==
  [bpm |-> 120, bpmFrac |-> 0,
   ts |-> Sig(<<"4">>, <<"4">>), subdivision |-> "1/8", swing |-> 0,
   volume |-> 70, polyEnabled |-> FALSE, polyBeats |-> 3, polySubdivision |-> "1/4",
   polyVolume |-> 55, visualPulse |-> TRUE, accents |-> <<TRUE, FALSE, FALSE, FALSE>>]

\* applyConfig(raw) on the state, before the effects of the render it causes.
applyConfigStateIgnoringLock(raw) ==
  LET config == normalizeConfig(raw)
      next == parseBeats(config.ts)
  IN [config EXCEPT
        !.accents = normalizeBooleanArray(AsRaw(config).v.accents, next.beats)]
applyConfigState(raw) ==
  LET config == normalizeConfig(raw)
      next == parseBeats(config.ts)
  IN [config EXCEPT
        !.bpm = IF ~tempoLockRef THEN config.bpm ELSE bpm,
        !.bpmFrac = IF ~tempoLockRef THEN config.bpmFrac ELSE bpmFrac,
        !.accents = normalizeBooleanArray(AsRaw(config).v.accents, next.beats)]

\* The updaters queued by the accents effect, applied in order by the render
\* that follows: prev => buildAccentArray(beats, prev), line 301.
RECURSIVE applyAccentUpdaters(_, _)
applyAccentUpdaters(queue, acc) ==
  IF queue = <<>> THEN acc
  ELSE applyAccentUpdaters(Tail(queue), buildAccentArray(Head(queue), acc))

\* useEffect(..., [beats]), lines 300-304, after a render that set the accents
\* itself: the updater it queues runs on a pattern of the new length.
accentsEffect(beatsBefore, beatsAfter, acc) ==
  IF beatsAfter # beatsBefore THEN buildAccentArray(beatsAfter, acc) ELSE acc

\* useEffect(..., [polyEnabled]), lines 314-321, as the new <<polyNextNoteTime, polyStep>>
polyEnabledEffectFromMeasureStart(enabledBefore, enabledAfter) ==
  IF enabledAfter /\ ~enabledBefore /\ audioContext # "null" /\ isRunningRef
  THEN <<measureStart, 0>>
  ELSE <<polyNextNoteTime, polyStep>>
polyEnabledEffect(enabledBefore, enabledAfter) ==
  IF enabledAfter /\ ~enabledBefore /\ audioContext # "null" /\ isRunningRef
  THEN <<Max(now, nextNoteTime), 0>>
  ELSE <<polyNextNoteTime, polyStep>>

\* applyConfig(raw), lines 372-388, with the render and the effects it causes.
applyConfig(raw) ==
  \E c \in {applyConfigState(raw)} :
  \E parsed \in {parseBeats(c.ts)} :
  \E poly \in {polyEnabledEffect(polyEnabled, c.polyEnabled)} :
     /\ bpm' = c.bpm
     /\ bpmFrac' = c.bpmFrac
     /\ bpmRef' = IF <<c.bpm, c.bpmFrac>> # <<bpm, bpmFrac>> THEN c.bpm ELSE bpmRef
     /\ bpmRefFrac' = IF <<c.bpm, c.bpmFrac>> # <<bpm, bpmFrac>> THEN c.bpmFrac ELSE bpmRefFrac
     /\ ts' = c.ts
     /\ beatsRef' = parsed.beats
     /\ unitRef' = parsed.unit
     /\ subdivision' = c.subdivision
     /\ swing' = c.swing
     /\ volume' = c.volume
     /\ polyEnabled' = c.polyEnabled
     /\ polyBeats' = c.polyBeats
     /\ polySubdivision' = c.polySubdivision
     /\ polyVolume' = c.polyVolume
     /\ visualPulse' = c.visualPulse
     /\ accents' = accentsEffect(beatsRef, parsed.beats, c.accents)
     /\ currentBeat' = IF parsed.beats # beatsRef THEN 0 ELSE currentBeat
     /\ phase' = phase
     /\ accentsQueue' = <<>>
     /\ polyNextNoteTime' = poly[1]
     /\ polyStep' = poly[2]

\* presetsRef.current = parsed.map((entry) => normalizeConfig(entry)), lines 337-339
loadPresets(stored) == [i \in 1..Len(stored) |-> AsRaw(normalizeConfig(stored[i]))]

\* presetsRef.current[slot]
PresetAt(slot) == IF slot + 1 <= Len(presetsRef) THEN presetsRef[slot + 1] ELSE Undefined

----------------------------------------------------------------------------
(* Initial state: the component after its mount effects.  The mount effect *)
(* at lines 390-399 applies the configuration found in localStorage, the   *)
(* one at lines 331-344 loads the presets.                                 *)

InitConfig(c) ==
  /\ bpm = c.bpm /\ bpmRef = c.bpm
  /\ bpmFrac = c.bpmFrac /\ bpmRefFrac = c.bpmFrac
  /\ ts = c.ts
  /\ beatsRef = parseBeats(c.ts).beats /\ unitRef = parseBeats(c.ts).unit
  /\ subdivision = c.subdivision
  /\ swing = c.swing
  /\ volume = c.volume
  /\ polyEnabled = c.polyEnabled
  /\ polyBeats = c.polyBeats
  /\ polySubdivision = c.polySubdivision
  /\ polyVolume = c.polyVolume
  /\ visualPulse = c.visualPulse
  /\ accents = c.accents
  /\ tempoLock = FALSE
  /\ trainingMode = FALSE /\ trainingStep = 2 /\ trainingEvery = 4
  /\ tapHistory = <<>>
  /\ accentsQueue = <<>>

InitRest ==
  /\ isRunning = FALSE /\ isRunningRef = FALSE
  /\ audioContext = "null"
  /\ nextNoteTime = 0 /\ currentStep = 0 /\ measureStart = 0 /\ measureCount = 0
  /\ polyNextNoteTime = 0 /\ polyStep = 0
  /\ rafIdRef = "null" /\ rafPending = 0 /\ awaiting = 0
  /\ mounted = TRUE /\ now = 0 /\ wallClock = 0 /\ userOps = 0
  /\ lastOp = "mount"
  /\ stopReturned = FALSE /\ resetReturned = FALSE /\ clickedSinceStop = FALSE
  /\ clipboard = Undefined
  /\ epochsSinceStop = 0 /\ epochStart = 0
  /\ phase = 0 /\ currentBeat = 0
  /\ mainPrev = <<>> /\ mainOut = <<>> /\ polyPrev = <<>> /\ polyOut = <<>>

\* What the mount effect may find under LAST_CONFIG_KEY.
StoredConfigs ==
  { Obj([bpm |-> Num(240), ts |-> Str(Sig(<<"3">>, <<"4">>)), subdivision |-> Str("1/16"),
         swing |-> Num(50), polyEnabled |-> Bool(TRUE), polyBeats |-> Num(3),
         polySubdivision |-> Str("1/8"), accents |-> Arr(<<Bool(TRUE), Bool(FALSE), Bool(TRUE)>>)]),
    Obj([bpm |-> Num(300), ts |-> Str(Sig(<<"7">>, <<"8">>)), subdivision |-> Str("1/8T"),
         swing |-> Num(75), accents |-> Arr(<<Bool(TRUE)>>)]),
    Obj([bpm |-> Num(60), ts |-> Str(Sig(<<"2">>, <<"4">>)), swing |-> Num(75),
         accents |-> Arr(<<Bool(FALSE), Bool(TRUE)>>)]) }

MountConfigs == {DefaultConfig} \cup {normalizeConfig(raw) : raw \in StoredConfigs}

\* What the mount effect may find under STORAGE_KEY.
StoredPresets == << Obj([bpm |-> Num(90), swing |-> Num(30)]), Null >>

\* No stored configuration or presets, or one of StoredConfigs.
Init ==
  /\ \E c \in MountConfigs : InitConfig(c)
  /\ presetsRef = <<>>
  /\ InitRest

\* No stored configuration; the stored presets.
InitDefault ==
  /\ InitConfig(DefaultConfig)
  /\ presetsRef = loadPresets(StoredPresets)
  /\ InitRest

----------------------------------------------------------------------------
(* Transport *)

\* A handler run by the user.
UserOp ==
  /\ mounted /\ userOps < MaxUserOps
  /\ userOps' = userOps + 1

\* startTransport, lines 622-627: the runtime refs of a new epoch.
staleEpoch ==
  [step |-> currentStep, next |-> now + startOffset, mstart |-> now + startOffset,
   mcount |-> 0, pstep |-> 0, pnext |-> now + startOffset]
freshEpoch ==
  [step |-> 0, next |-> now + startOffset, mstart |-> now + startOffset,
   mcount |-> 0, pstep |-> 0, pnext |-> now + startOffset]

\* startTransport, lines 620-632, run by n calls back to back (n = 1 unless
\* several calls were waiting for the same resume).
startBody(n) ==
  /\ isRunningRef' = TRUE
  /\ isRunning' = mounted
  /\ currentStep' = freshEpoch.step
  /\ nextNoteTime' = freshEpoch.next
  /\ measureStart' = freshEpoch.mstart
  /\ measureCount' = freshEpoch.mcount
  /\ polyStep' = freshEpoch.pstep
  /\ polyNextNoteTime' = freshEpoch.pnext
  /\ rafIdRef' = "armed"
  /\ rafPending' = rafPending + n
  /\ epochsSinceStop' = epochsSinceStop + n
  /\ epochStart' = now
  /\ currentBeat' = 0
  /\ phase' = 0
  /\ mainPrev' = <<>> /\ mainOut' = <<>> /\ polyPrev' = <<>> /\ polyOut' = <<>>
  /\ UNCHANGED <<clickedSinceStop, configVars, storeVars, now, mounted>>

\* startTransport() while running: `if (isRunningRef.current) return;`
StartNoop ==
  /\ UserOp /\ isRunningRef
  /\ lastOp' = "startNoop"
  /\ stopReturned' = FALSE /\ resetReturned' = FALSE
  /\ UNCHANGED <<configVars, runtimeVars, transportVars, logVars, displayVars, storeVars,
                 now, clickedSinceStop, epochsSinceStop, epochStart>>

\* startTransport() where `new AudioContext()` throws: the call is rejected.
StartCreateFail ==
  /\ UserOp /\ ~isRunningRef /\ audioContext = "null"
  /\ lastOp' = "startRejected"
  /\ stopReturned' = FALSE /\ resetReturned' = FALSE
  /\ UNCHANGED <<configVars, runtimeVars, transportVars, logVars, displayVars, storeVars,
                 now, clickedSinceStop, epochsSinceStop, epochStart>>

\* startTransport() finding (or creating) a suspended context: it stops at
\* `await context.resume()`.
StartAwait ==
  /\ UserOp /\ ~isRunningRef /\ audioContext \in {"null", "suspended"}
  /\ audioContext' = "suspended"
  /\ awaiting' = awaiting + 1
  /\ lastOp' = "startAwait"
  /\ stopReturned' = FALSE /\ resetReturned' = FALSE
  /\ UNCHANGED <<configVars, runtimeVars, logVars, displayVars, storeVars, now,
                 isRunning, isRunningRef, rafIdRef, rafPending, mounted,
                 clickedSinceStop, epochsSinceStop, epochStart>>

\* startTransport() finding (or creating) a running context: no await, the
\* whole body runs in the caller's task.
StartNow ==
  /\ UserOp /\ ~isRunningRef /\ audioContext \in {"null", "running"}
  /\ audioContext' = "running"
  /\ startBody(1)
  /\ lastOp' = "started"
  /\ stopReturned' = FALSE /\ resetReturned' = FALSE
  /\ UNCHANGED awaiting

\* The device resumes: every pending resume() promise is resolved and the
\* awaiting calls continue, one after the other, at line 620.
ResumeResolve ==
  /\ awaiting > 0 /\ audioContext = "suspended"
  /\ audioContext' = "running"
  /\ startBody(awaiting)
  /\ awaiting' = 0
  /\ lastOp' = "started"
  /\ UNCHANGED <<stopReturned, resetReturned, userOps>>

\* The device fails to resume (or the context was closed): every pending
\* resume() promise is rejected, and with it each awaiting startTransport().
ResumeRejectArms ==
  /\ awaiting > 0 /\ audioContext \in {"suspended", "closed"}
  /\ awaiting' = 0
  /\ lastOp' = "startRejected"
  /\ rafPending' = rafPending + 1 /\ rafIdRef' = "armed"
  /\ UNCHANGED <<configVars, runtimeVars, logVars, displayVars, histVars, storeVars, now, userOps,
                 isRunning, isRunningRef, audioContext, mounted>>
ResumeReject ==
  /\ awaiting > 0 /\ audioContext \in {"suspended", "closed"}
  /\ awaiting' = 0
  /\ lastOp' = "startRejected"
  /\ UNCHANGED <<configVars, runtimeVars, logVars, displayVars, histVars, storeVars, now, userOps,
                 isRunning, isRunningRef, rafIdRef, rafPending, audioContext, mounted>>

\* The system takes the output device away (an interruption).
Suspend ==
  /\ audioContext = "running"
  /\ audioContext' = "suspended"
  /\ lastOp' = "suspend"
  /\ UNCHANGED <<configVars, runtimeVars, logVars, displayVars, histVars, storeVars, now, userOps,
                 isRunning, isRunningRef, rafIdRef, rafPending, awaiting, mounted>>

stopBodyKeepingBeat ==
  /\ isRunningRef' = FALSE
  /\ isRunning' = FALSE
  /\ rafPending' = IF rafIdRef = "armed" THEN rafPending - 1 ELSE rafPending
  /\ rafIdRef' = "null"
  /\ phase' = 0
  /\ currentBeat' = currentBeat
  /\ stopReturned' = TRUE
  /\ clickedSinceStop' = FALSE
  /\ epochsSinceStop' = 0

\* stopTransport, lines 635-645, on the transport variables, the display and
\* the history.
stopBody ==
  /\ isRunningRef' = FALSE
  /\ isRunning' = FALSE
  /\ rafPending' = IF rafIdRef = "armed" THEN rafPending - 1 ELSE rafPending
  /\ rafIdRef' = "null"
  /\ phase' = 0
  /\ currentBeat' = 0
  /\ stopReturned' = TRUE
  /\ clickedSinceStop' = FALSE
  /\ epochsSinceStop' = 0

StopTransport ==
  /\ UserOp
  /\ stopBody
  /\ lastOp' = "stop"
  /\ UNCHANGED <<configVars, runtimeVars, logVars, storeVars, now,
                 awaiting, audioContext, mounted, epochStart, resetReturned>>

\* The cleanup of the mount effect, lines 709-716: stopTransport(), then close().
Unmount ==
  /\ UserOp
  /\ stopBody
  /\ mounted' = FALSE
  /\ audioContext' = IF audioContext = "null" THEN "null" ELSE "closed"
  /\ lastOp' = "unmount"
  /\ UNCHANGED <<configVars, runtimeVars, logVars, storeVars, now,
                 awaiting, epochStart, resetReturned>>

\* reset, lines 675-696.
Reset ==
  /\ UserOp
  /\ stopBody
  /\ tempoLock' = FALSE
  /\ bpm' = 120 /\ bpmRef' = 120
  /\ bpmFrac' = 0 /\ bpmRefFrac' = 0
  /\ ts' = Sig(<<"4">>, <<"4">>)
  /\ \E parsed \in {parseBeats(ts')} : beatsRef' = parsed.beats /\ unitRef' = parsed.unit
  /\ subdivision' = "1/8"
  /\ swing' = 0
  /\ volume' = 70
  /\ polyEnabled' = FALSE
  /\ polyBeats' = 3
  /\ polySubdivision' = "1/4"
  /\ polyVolume' = 55
  /\ visualPulse' = TRUE
  /\ accents' = accentsEffect(beatsRef, beatsRef', buildAccentArray(4, <<>>))
  /\ trainingMode' = FALSE /\ trainingStep' = 2 /\ trainingEvery' = 4
  /\ tapHistory' = <<>>
  /\ lastOp' = "reset"
  /\ resetReturned' = TRUE
  /\ accentsQueue' = <<>>
  /\ UNCHANGED <<runtimeVars, logVars, storeVars, now, wallClock, awaiting,
                 audioContext, mounted, epochStart>>

----------------------------------------------------------------------------
(* The requestAnimationFrame callback: schedulerLoop, lines 523-611.       *)
(* tracked: the callback that runs is the one rafIdRef names.              *)

\* schedulerLoop without the test of isRunningRef in its guard (line 525).
SchedulerLoopUnguarded(tracked) ==
  /\ IF tracked THEN rafIdRef = "armed"
                ELSE rafPending > (IF rafIdRef = "armed" THEN 1 ELSE 0)
  /\ IF audioContext = "null"
     THEN /\ rafPending' = rafPending - 1
          /\ rafIdRef' = IF tracked THEN "fired" ELSE rafIdRef
          /\ lastOp' = "loopIdle"
          /\ UNCHANGED <<configVars, runtimeVars, logVars, displayVars, histVars>>
     ELSE \E r \in {schedulerPass} :
          /\ ~r.spins
          /\ nextNoteTime' = r.next
          /\ currentStep' = r.step
          /\ measureStart' = r.mstart
          /\ measureCount' = r.mcount
          /\ polyNextNoteTime' = r.pnext
          /\ polyStep' = r.pstep
          /\ bpm' = IF mounted THEN r.bpm ELSE bpm
          /\ bpmFrac' = IF mounted THEN r.bpmFrac ELSE bpmFrac
          /\ currentBeat' = r.cbeat
          /\ phase' = pulsePhase(r, getTimingSnapshot)
          /\ mainPrev' = IF mainOut # <<>> THEN <<Last(mainOut)>> ELSE mainPrev
          /\ mainOut' = r.main
          /\ polyPrev' = IF polyOut # <<>> THEN <<Last(polyOut)>> ELSE polyPrev
          /\ polyOut' = r.poly
          /\ clickedSinceStop' = (clickedSinceStop \/ r.main # <<>> \/ r.poly # <<>>)
          /\ rafPending' = rafPending
          /\ rafIdRef' = "armed"
          /\ lastOp' = "loop"
          /\ UNCHANGED <<lockVars, bpmRef, bpmRefFrac, meterVars, feelVars, levelVars, polyVars,
                         trainingVars, tapVars, pulseVars,
                         stopReturned, resetReturned, epochsSinceStop, epochStart>>
  /\ UNCHANGED <<isRunning, isRunningRef, awaiting, audioContext, mounted,
                 storeVars, now, userOps>>

SchedulerLoop(tracked) ==
  /\ IF tracked THEN rafIdRef = "armed"
                ELSE rafPending > (IF rafIdRef = "armed" THEN 1 ELSE 0)
  /\ IF audioContext = "null" \/ ~isRunningRef
     THEN /\ rafPending' = rafPending - 1
          /\ rafIdRef' = IF tracked THEN "fired" ELSE rafIdRef
          /\ lastOp' = "loopIdle"
          /\ UNCHANGED <<configVars, runtimeVars, logVars, displayVars, histVars>>
     ELSE \E r \in {schedulerPass} :
          /\ ~r.spins
          /\ nextNoteTime' = r.next
          /\ currentStep' = r.step
          /\ measureStart' = r.mstart
          /\ measureCount' = r.mcount
          /\ polyNextNoteTime' = r.pnext
          /\ polyStep' = r.pstep
          /\ bpm' = IF mounted THEN r.bpm ELSE bpm
          /\ bpmFrac' = IF mounted THEN r.bpmFrac ELSE bpmFrac
          /\ currentBeat' = r.cbeat
          /\ phase' = pulsePhase(r, getTimingSnapshot)
          /\ mainPrev' = IF mainOut # <<>> THEN <<Last(mainOut)>> ELSE mainPrev
          /\ mainOut' = r.main
          /\ polyPrev' = IF polyOut # <<>> THEN <<Last(polyOut)>> ELSE polyPrev
          /\ polyOut' = r.poly
          /\ clickedSinceStop' = (clickedSinceStop \/ r.main # <<>> \/ r.poly # <<>>)
          /\ rafPending' = rafPending
          /\ rafIdRef' = "armed"
          /\ lastOp' = "loop"
          /\ UNCHANGED <<lockVars, bpmRef, bpmRefFrac, meterVars, feelVars, levelVars, polyVars,
                         trainingVars, tapVars, pulseVars,
                         stopReturned, resetReturned, epochsSinceStop, epochStart>>
  /\ UNCHANGED <<isRunning, isRunningRef, awaiting, audioContext, mounted,
                 storeVars, now, userOps>>

\* The render React schedules for the state updates made outside a handler:
\* the setBpm of schedulerLoop, whose effect is bpmRef.current = bpm
\* (useSyncedRef, lines 142-148), and the setAccents updaters queued by the
\* accents effect (lines 300-304).
Render ==
  /\ mounted /\ (<<bpmRef, bpmRefFrac>> # <<bpm, bpmFrac>> \/ accentsQueue # <<>>)
  /\ bpmRef' = bpm
  /\ bpmRefFrac' = bpmFrac
  /\ accents' = applyAccentUpdaters(accentsQueue, accents)
  /\ accentsQueue' = <<>>
  /\ UNCHANGED <<lockVars, bpm, bpmFrac, ts, beatsRef, unitRef, feelVars, levelVars, polyVars,
                 trainingVars, pulseVars,
                 tapVars, runtimeVars, transportVars, logVars, displayVars, histVars,
                 storeVars, now, userOps, lastOp>>

\* The audio clock advances while the context runs.
Tick(limit) ==
  /\ audioContext = "running" /\ now < limit
  /\ now' = now + TickQuantum
  /\ lastOp' = "tick"
  /\ UNCHANGED <<configVars, runtimeVars, transportVars, logVars, displayVars, histVars,
                 storeVars, userOps>>

----------------------------------------------------------------------------
(* Configuration edits: the handlers of the panel's controls.  Each is a     *)
(* DOM event, so the render and the effects it causes are part of it.      *)

\* What every edit does besides its own state update.
Edit ==
  /\ UserOp
  /\ UNCHANGED <<transportVars, logVars, histVars, storeVars, now, lastOp>>

\* onClick={() => setTempoLock((v) => !v)}, line 789
ToggleTempoLock ==
  /\ Edit
  /\ tempoLock' = ~tempoLock
  /\ UNCHANGED <<tempoVars, meterVars, feelVars, levelVars, polyVars, trainingVars,
                 tapVars, pulseVars, runtimeVars,
                 displayVars>>

\* onValueChange={(v) => !tempoLock && setBpm(v[0])}, line 850
SetBpm(v) ==
  /\ Edit
  /\ bpm' = IF ~tempoLock THEN v ELSE bpm
  /\ bpmFrac' = IF ~tempoLock THEN 0 ELSE bpmFrac
  /\ bpmRef' = IF <<bpm', bpmFrac'>> # <<bpm, bpmFrac>> THEN v ELSE bpmRef
  /\ bpmRefFrac' = IF <<bpm', bpmFrac'>> # <<bpm, bpmFrac>> THEN 0 ELSE bpmRefFrac
  /\ UNCHANGED <<lockVars, meterVars, feelVars, levelVars, polyVars, trainingVars,
                 tapVars, pulseVars, runtimeVars,
                 displayVars>>

\* bumpBpm(delta), lines 668-671, pressed near an end of the tempo range.
BumpBpm(delta) ==
  /\ bpm <= 20 + MaxBumpRun \/ bpm >= 300 - MaxBumpRun
  /\ Edit
  /\ bpm' = IF tempoLock THEN bpm ELSE clamp(bpm + delta, 20, 300)
  /\ bpmFrac' = IF tempoLock THEN bpmFrac ELSE clampFrac(bpm + delta, bpmFrac, 20, 300)
  /\ bpmRef' = IF <<bpm', bpmFrac'>> # <<bpm, bpmFrac>> THEN bpm' ELSE bpmRef
  /\ bpmRefFrac' = IF <<bpm', bpmFrac'>> # <<bpm, bpmFrac>> THEN bpmFrac' ELSE bpmRefFrac
  /\ UNCHANGED <<lockVars, meterVars, feelVars, levelVars, polyVars, trainingVars,
                 tapVars, pulseVars, runtimeVars,
                 displayVars>>

\* diffs.slice().sort((a, b) => a - b)
RECURSIVE InsertSorted(_, _)
InsertSorted(s, x) ==
  IF s = <<>> THEN <<x>>
  ELSE IF x <= Head(s) THEN <<x>> \o s
  ELSE <<Head(s)>> \o InsertSorted(Tail(s), x)

RECURSIVE SortAscending(_)
SortAscending(s) ==
  IF s = <<>> THEN <<>> ELSE InsertSorted(SortAscending(Tail(s)), Head(s))

\* [...h, now].slice(-6)
tapWindow(h, t) ==
  LET all == Append(h, t)
  IN IF Len(all) > 6 THEN SubSeq(all, Len(all) - 5, Len(all)) ELSE all

tapTempoUnsorted(next) ==
  LET diffs == [i \in 1..(Len(next) - 1) |-> next[i + 1] - next[i]]
      sorted == diffs
      trimmed == IF Len(sorted) > 4 THEN SubSeq(sorted, 2, Len(sorted) - 1) ELSE sorted
      mid == Len(trimmed) \div 2
      twice == IF Len(trimmed) % 2 = 0
               THEN trimmed[mid] + trimmed[mid + 1]
               ELSE 2 * trimmed[mid + 1]
  IN IF twice = 0 THEN 300 ELSE clamp((240000 + twice) \div (2 * twice), 20, 300)

\* Lines 652-662 for a history `next` of at least two taps: the clamped
\* Math.round(60000 / median).  twice is 2 * median; a median of 0 gives
\* Infinity, which clamp takes to 300.
tapTempo(next) ==
  LET diffs == [i \in 1..(Len(next) - 1) |-> next[i + 1] - next[i]]
      sorted == SortAscending(diffs)
      trimmed == IF Len(sorted) > 4 THEN SubSeq(sorted, 2, Len(sorted) - 1) ELSE sorted
      mid == Len(trimmed) \div 2
      twice == IF Len(trimmed) % 2 = 0
               THEN trimmed[mid] + trimmed[mid + 1]
               ELSE 2 * trimmed[mid + 1]
  IN IF twice = 0 THEN 300 ELSE clamp((240000 + twice) \div (2 * twice), 20, 300)

TapAlwaysEnabled(dt, counted) ==
  /\ IF counted THEN UserOp
                ELSE mounted /\ wallClock + dt <= MaxTapClock /\ UNCHANGED userOps
  /\ wallClock' = wallClock + dt
  /\ IF isRunningRef
     THEN UNCHANGED <<tempoVars, tapHistory>>
     ELSE \E next \in {tapWindow(tapHistory, wallClock + dt)} :
             /\ tapHistory' = next
             /\ bpm' = IF Len(next) >= 4 /\ ~tempoLock THEN tapTempo(next) ELSE bpm
             /\ bpmFrac' = IF Len(next) >= 4 /\ ~tempoLock THEN 0 ELSE bpmFrac
             /\ bpmRef' = IF <<bpm', bpmFrac'>> # <<bpm, bpmFrac>> THEN bpm' ELSE bpmRef
             /\ bpmRefFrac' = IF <<bpm', bpmFrac'>> # <<bpm, bpmFrac>> THEN 0 ELSE bpmRefFrac
  /\ UNCHANGED <<lockVars, meterVars, feelVars, levelVars, polyVars, trainingVars,
                 pulseVars, runtimeVars, transportVars, logVars, displayVars, histVars,
                 storeVars, now, lastOp>>
\* A press of the tap button (lines 855-862), dt ms after the previous press;
\* counted: the press is one of the user's MaxUserOps handlers, else one of a
\* run of presses that ends at MaxTapClock.
\* The button is disabled while the tempo is locked (line 859); otherwise the
\* press runs tap, lines 646-666.
Tap(dt, counted) ==
  /\ IF counted THEN UserOp
                ELSE mounted /\ wallClock + dt <= MaxTapClock /\ UNCHANGED userOps
  /\ wallClock' = wallClock + dt
  /\ IF tempoLock \/ isRunningRef
     THEN UNCHANGED <<tempoVars, tapHistory>>
     ELSE \E next \in {tapWindow(tapHistory, wallClock + dt)} :
             /\ tapHistory' = next
             /\ bpm' = IF Len(next) >= 4 /\ ~tempoLock THEN tapTempo(next) ELSE bpm
             /\ bpmFrac' = IF Len(next) >= 4 /\ ~tempoLock THEN 0 ELSE bpmFrac
             /\ bpmRef' = IF <<bpm', bpmFrac'>> # <<bpm, bpmFrac>> THEN bpm' ELSE bpmRef
             /\ bpmRefFrac' = IF <<bpm', bpmFrac'>> # <<bpm, bpmFrac>> THEN 0 ELSE bpmRefFrac
  /\ UNCHANGED <<lockVars, meterVars, feelVars, levelVars, polyVars, trainingVars,
                 pulseVars, runtimeVars, transportVars, logVars, displayVars, histVars,
                 storeVars, now, lastOp>>

\* onChange={(event) => setTs(event.target.value)}, line 950, with the render
\* it causes and that render's effects: the synced refs of beats and unit, and
\* the accents effect, which queues its updater when beats changed.
SetTs(v) ==
  /\ Edit
  /\ ts' = v
  /\ \E parsed \in {parseBeats(v)} : beatsRef' = parsed.beats /\ unitRef' = parsed.unit
  /\ accentsQueue' = IF beatsRef' # beatsRef THEN Append(accentsQueue, beatsRef')
                                             ELSE accentsQueue
  /\ currentBeat' = IF beatsRef' # beatsRef THEN 0 ELSE currentBeat
  /\ UNCHANGED <<lockVars, tempoVars, accents, feelVars, levelVars, polyVars,
                 trainingVars, tapVars, pulseVars, runtimeVars, phase>>

\* toggleAccent(i), lines 698-702, from the button of beat i (0-based); the
\* panel draws a button for each of the first 12 beats.  A pattern set by a
\* handler replaces what the queued updaters would give.
ToggleAccent(i) ==
  /\ Edit
  /\ i < Min(beatsRef, 12)
  /\ \E next \in {buildAccentArray(beatsRef, accents)} :
       accents' = [next EXCEPT ![i + 1] = ~next[i + 1]]
  /\ accentsQueue' = <<>>
  /\ UNCHANGED <<lockVars, tempoVars, ts, beatsRef, unitRef, feelVars, levelVars,
                 polyVars, trainingVars, tapVars, pulseVars, runtimeVars,
                 displayVars>>

\* onClick={() => setAccents(Array.from({ length: beats }, (_, i) => i === 0))},
\* lines 1135-1137
DownbeatOnly ==
  /\ Edit
  /\ accents' = [i \in 1..beatsRef |-> i = 1]
  /\ accentsQueue' = <<>>
  /\ UNCHANGED <<lockVars, tempoVars, ts, beatsRef, unitRef, feelVars, levelVars,
                 polyVars, trainingVars, tapVars, pulseVars, runtimeVars,
                 displayVars>>

\* onChange={(event) => setSubdivision(event.target.value)}, line 965
SetSubdivision(v) ==
  /\ Edit
  /\ subdivision' = v
  /\ UNCHANGED <<lockVars, tempoVars, meterVars, swing, levelVars, polyVars,
                 trainingVars, tapVars, pulseVars, runtimeVars,
                 displayVars>>

\* onValueChange={(v) => setSwing(v[0])}, line 994 (min 0, max 75)
SetSwing(v) ==
  /\ Edit
  /\ swing' = v
  /\ UNCHANGED <<lockVars, tempoVars, meterVars, subdivision, levelVars, polyVars,
                 trainingVars, tapVars, pulseVars, runtimeVars,
                 displayVars>>

\* onValueChange={(v) => setVolume(v[0])}, line 1018 (min 0, max 100)
SetVolume(v) ==
  /\ Edit
  /\ volume' = v
  /\ UNCHANGED <<lockVars, tempoVars, meterVars, feelVars, polyVolume, polyVars,
                 trainingVars, tapVars, pulseVars, runtimeVars,
                 displayVars>>

\* onValueChange={(v) => setPolyVolume(v[0])}, line 1120 (min 0, max 100)
SetPolyVolume(v) ==
  /\ Edit
  /\ polyVolume' = v
  /\ UNCHANGED <<lockVars, tempoVars, meterVars, feelVars, volume, polyVars,
                 trainingVars, tapVars, pulseVars, runtimeVars,
                 displayVars>>

\* <Switch checked={polyEnabled} onCheckedChange={setPolyEnabled} />, line 1078
SetPolyEnabled(v) ==
  /\ Edit
  /\ polyEnabled' = v
  /\ \E poly \in {polyEnabledEffect(polyEnabled, v)} :
       polyNextNoteTime' = poly[1] /\ polyStep' = poly[2]
  /\ UNCHANGED <<lockVars, tempoVars, meterVars, feelVars, levelVars, polyBeats,
                 polySubdivision, trainingVars, tapVars, pulseVars, mainRuntime,
                 displayVars>>

\* onClick={() => setPolyBeats(value)}, line 1088 (value of [3, 4, 5, 7])
SetPolyBeats(v) ==
  /\ Edit
  /\ polyBeats' = v
  /\ UNCHANGED <<lockVars, tempoVars, meterVars, feelVars, levelVars, polyEnabled,
                 polySubdivision, trainingVars, tapVars, pulseVars, runtimeVars,
                 displayVars>>

\* onChange={(event) => setPolySubdivision(event.target.value)}, line 1099
SetPolySubdivision(v) ==
  /\ Edit
  /\ polySubdivision' = v
  /\ UNCHANGED <<lockVars, tempoVars, meterVars, feelVars, levelVars, polyEnabled,
                 polyBeats, trainingVars, tapVars, pulseVars, runtimeVars,
                 displayVars>>

\* <Switch checked={trainingMode} onCheckedChange={setTrainingMode} />, line 1040
SetTrainingMode(v) ==
  /\ Edit
  /\ trainingMode' = v
  /\ UNCHANGED <<lockVars, tempoVars, meterVars, feelVars, levelVars, polyVars,
                 trainingStep, trainingEvery, tapVars, pulseVars, runtimeVars,
                 displayVars>>

\* onValueChange={(v) => setTrainingStep(v[0])}, line 1052 (min 1, max 12)
SetTrainingStep(v) ==
  /\ Edit
  /\ trainingStep' = v
  /\ UNCHANGED <<lockVars, tempoVars, meterVars, feelVars, levelVars, polyVars,
                 trainingMode, trainingEvery, tapVars, pulseVars, runtimeVars,
                 displayVars>>

\* onValueChange={(v) => setTrainingEvery(v[0])}, line 1065 (min 1, max 12)
SetTrainingEvery(v) ==
  /\ Edit
  /\ trainingEvery' = v
  /\ UNCHANGED <<lockVars, tempoVars, meterVars, feelVars, levelVars, polyVars,
                 trainingMode, trainingStep, tapVars, pulseVars, runtimeVars,
                 displayVars>>

\* getConfigSnapshot, lines 358-370.
getConfigSnapshot ==
  Obj([bpm |-> NumOf(bpmRef, bpmRefFrac), ts |-> Str(ts), subdivision |-> Str(subdivisionRef),
       swing |-> Num(swingRef), volume |-> Num(volume),
       polyEnabled |-> Bool(polyEnabledRef), polyBeats |-> Num(polyBeatsRef),
       polySubdivision |-> Str(polySubdivisionRef), polyVolume |-> Num(polyVolumeRef),
       visualPulse |-> Bool(visualPulseRef),
       accents |-> Arr([i \in 1..Len(accentsRef) |-> Bool(accentsRef[i])])])

\* JSON.parse(JSON.stringify(x)) for an object of primitives and arrays of
\* primitives: a field that is undefined is dropped, NaN becomes null, and so
\* does an undefined array element.
jsonElement(x) == IF x.t \in {"NaN", "undefined"} THEN Null ELSE x
jsonField(x) ==
  IF x.t = "array" THEN Arr([i \in 1..Len(x.v) |-> jsonElement(x.v[i])])
  ELSE IF x.t = "NaN" THEN Null ELSE x
jsonObject(o) ==
  Obj([f \in {g \in DOMAIN o.v : o.v[g].t # "undefined"} |-> jsonField(o.v[f])])

EXPORT_VERSION == 1

\* exportConfig, lines 425-437: what parsing the exported text gives.
exportPayload ==
  Obj([version |-> Num(EXPORT_VERSION),
       config |-> jsonObject(AsRaw(normalizeConfig(getConfigSnapshot)))])

\* exportConfig with navigator.clipboard.writeText: the text is on the clipboard.
ExportConfig ==
  /\ UserOp
  /\ clipboard' = exportPayload
  /\ UNCHANGED <<configVars, runtimeVars, transportVars, logVars, displayVars, histVars,
                 presetsRef, now, lastOp>>

PRESET_SLOTS == 4

\* savePreset(slot), lines 406-415, with the snapshot its closure takes: the
\* slots that hold a preset normalized again, the others null, and the
\* normalized snapshot at `slot`.
savePreset(slot, current) ==
  presetsRef' =
    [i \in 1..PRESET_SLOTS |->
       IF i = slot + 1 THEN AsRaw(normalizeConfig(current))
       ELSE IF PresetAt(i - 1).t = "object" THEN AsRaw(normalizeConfig(PresetAt(i - 1)))
       ELSE Null]

\* onClick={() => savePreset(i)}, line 1212: the savePreset of the render on
\* screen.
SavePreset(slot) ==
  /\ UserOp
  /\ savePreset(slot, getConfigSnapshot)
  /\ UNCHANGED <<configVars, runtimeVars, transportVars, logVars, displayVars, histVars,
                 clipboard, now, lastOp>>

\* The keydown handler, lines 718-749, is registered by an effect with no
\* dependencies: its savePreset and exportConfig are those of the first
\* render, whose getConfigSnapshot reads the refs as they are now and `ts` as
\* the first render had it, useState("4/4") (line 241).
keydownSnapshot ==
  Obj([f \in DOMAIN getConfigSnapshot.v |->
         IF f = "ts" THEN Str(Sig(<<"4">>, <<"4">>)) ELSE getConfigSnapshot.v[f]])

\* Ctrl/Cmd + Shift + digit: savePreset(digit - 1), line 726.
KeydownSavePreset(slot) ==
  /\ UserOp
  /\ savePreset(slot, keydownSnapshot)
  /\ UNCHANGED <<configVars, runtimeVars, transportVars, logVars, displayVars, histVars,
                 clipboard, now, lastOp>>

\* Ctrl/Cmd + E: exportConfig(), line 734.
KeydownExport ==
  /\ UserOp
  /\ clipboard' = Obj([version |-> Num(EXPORT_VERSION),
                       config |-> jsonObject(AsRaw(normalizeConfig(keydownSnapshot)))])
  /\ UNCHANGED <<configVars, runtimeVars, transportVars, logVars, displayVars, histVars,
                 presetsRef, now, lastOp>>

\* The answer to window.prompt that JSON.parse rejects.
Malformed == [t |-> "malformed"]

\* const payload = parsed?.config ?? parsed, line 445
importPayload(parsed) ==
  IF Field(parsed, "config").t \in {"undefined", "null"} THEN parsed
  ELSE Field(parsed, "config")

\* importConfig, lines 439-450, for a prompt answered with the JSON text of
\* `parsed`, or with text that is not JSON (the catch branch: an alert).
ImportConfig(parsed) ==
  /\ Edit
  /\ IF parsed.t = "malformed"
     THEN UNCHANGED <<tempoVars, meterVars, feelVars, levelVars, polyVars, polyRuntime,
                     pulseVars, displayVars>>
     ELSE applyConfig(importPayload(parsed))
  /\ UNCHANGED <<lockVars, trainingVars, tapVars, mainRuntime>>

\* importConfig for a prompt answered by pasting the clipboard.
PasteConfig ==
  /\ clipboard.t # "undefined"
  /\ ImportConfig(clipboard)

\* loadPreset(slot), lines 417-423
LoadPreset(slot) ==
  /\ Edit
  /\ IF PresetAt(slot).t = "object"
     THEN applyConfig(PresetAt(slot))
     ELSE UNCHANGED <<tempoVars, meterVars, feelVars, levelVars, polyVars, polyRuntime,
                     pulseVars, displayVars>>
  /\ UNCHANGED <<lockVars, trainingVars, tapVars, mainRuntime>>

----------------------------------------------------------------------------
(* Specifications *)

\* The transport and the scheduler under a configuration fixed at mount.
Next ==
  \/ StartNoop
  \/ StartCreateFail
  \/ StartAwait
  \/ StartNow
  \/ ResumeResolve
  \/ ResumeReject
  \/ Suspend
  \/ StopTransport
  \/ Unmount
  \/ Reset
  \/ SchedulerLoop(TRUE)
  \/ SchedulerLoop(FALSE)
  \/ Tick(MaxNow)

Spec == Init /\ [][Next]_vars

\* The values the live edits choose from.
LiveBpms == {240}
LiveSignatures == {Sig(<<"7">>, <<"8">>)}
LiveSubdivisions == {"1/16", "1/8T"}
LiveSwings == {50}
LivePolyBeats == {7}
LivePolySubdivisions == {"1/8"}

\* The scheduler under live configuration edits.
NextLive ==
  \/ StartNow
  \/ StopTransport
  \/ SchedulerLoop(TRUE)
  \/ Tick(MaxLiveNow)
  \/ Render
  \/ \E v \in LiveBpms : SetBpm(v)
  \/ \E v \in LiveSignatures : SetTs(v)
  \/ \E v \in LiveSubdivisions : SetSubdivision(v)
  \/ \E v \in LiveSwings : SetSwing(v)
  \/ SetPolyEnabled(~polyEnabled)
  \/ \E v \in LivePolyBeats : SetPolyBeats(v)
  \/ \E v \in LivePolySubdivisions : SetPolySubdivision(v)

SpecLive == InitDefault /\ [][NextLive]_vars

\* The values the tempo and range edits choose from.
SliderBpms == {20, 300}
BumpDeltas == {0 - 1, 1}
TapGaps == {150}
TrainingSteps == {12}
TrainingEverys == {1}
ImportPayloads ==
  { Obj([config |-> Obj([bpm |-> Num(19), swing |-> Num(80), volume |-> Num(101),
                         polyVolume |-> Num(0 - 1), polyBeats |-> Num(1)])]),
    Obj([bpm |-> Num(301), polyBeats |-> Num(13), ts |-> Str(Sig(<<"0">>, <<"4">>))]) }
PresetSlots == {0, 3}
SliderSwings == {75}
SliderVolumes == {100}
ButtonPolyBeats == {7}
SelectSignatures == {Sig(<<"3">>, <<"8">>)}

\* The tempo and the ranges of the configuration under the panel's edits.
NextConfig ==
  \/ StartNow
  \/ StopTransport
  \/ Reset
  \/ SchedulerLoop(TRUE)
  \/ Render
  \/ ToggleTempoLock
  \/ \E v \in SliderBpms : SetBpm(v)
  \/ \E d \in BumpDeltas : BumpBpm(d)
  \/ \E dt \in TapGaps : Tap(dt, TRUE)
  \/ SetTrainingMode(~trainingMode)
  \/ \E v \in TrainingSteps : SetTrainingStep(v)
  \/ \E v \in TrainingEverys : SetTrainingEvery(v)
  \/ \E p \in ImportPayloads : ImportConfig(p)
  \/ \E slot \in PresetSlots : LoadPreset(slot)
  \/ \E v \in SliderSwings : SetSwing(v)
  \/ \E v \in SliderVolumes : SetVolume(v)
  \/ \E v \in SliderVolumes : SetPolyVolume(v)
  \/ \E v \in ButtonPolyBeats : SetPolyBeats(v)
  \/ \E v \in SelectSignatures : SetTs(v)

SpecConfig == InitDefault /\ [][NextConfig]_vars

\* The gaps between the presses of a run of taps, in ms.
RunTapGaps == {400, 500}

\* Tap tempo: runs of taps, with the lock and the transport toggled between.
NextTap ==
  \/ \E dt \in RunTapGaps : Tap(dt, FALSE)
  \/ ToggleTempoLock
  \/ StartNow
  \/ StopTransport

SpecTap == InitDefault /\ [][NextTap]_vars

\* What the import prompt is answered with: text that is not JSON, JSON that
\* is no configuration (null, a number, an object with none of the fields),
\* and a configuration with one field.
StorePayloads ==
  { Malformed, Null, Num(5), Obj([version |-> Num(EXPORT_VERSION)]),
    Obj([swing |-> Num(30)]) }
StoreVolumes == {0}
StoreBpms == {20, 300}
StoreSignatures == {Sig(<<"7">>, <<"8">>)}
StoreAccents == {1}
StoreSlots == {0}

\* Export, import and presets between edits of the configuration.
NextStore ==
  \/ ExportConfig
  \/ PasteConfig
  \/ \E p \in StorePayloads : ImportConfig(p)
  \/ \E slot \in StoreSlots : LoadPreset(slot)
  \/ Reset
  \/ Render
  \/ ToggleTempoLock
  \/ \E v \in StoreBpms : SetBpm(v)
  \/ \E v \in StoreVolumes : SetVolume(v)
  \/ \E v \in StoreVolumes : SetPolyVolume(v)
  \/ \E v \in StoreSignatures : SetTs(v)
  \/ \E i \in StoreAccents : ToggleAccent(i)

SpecStore == InitDefault /\ [][NextStore]_vars

\* A pattern of three accents with 7/8, and one of seven with 3/8.
MeterPayloads ==
  { Obj([ts |-> Str(Sig(<<"7">>, <<"8">>)),
         accents |-> Arr(<<Bool(FALSE), Bool(TRUE), Bool(TRUE)>>)]),
    Obj([ts |-> Str(Sig(<<"3">>, <<"8">>)),
         accents |-> Arr(<<Bool(TRUE), Bool(FALSE), Bool(TRUE), Bool(TRUE),
                           Bool(FALSE), Bool(FALSE), Bool(TRUE)>>)]) }
MeterSignatures == {Sig(<<"3">>, <<"8">>), Sig(<<"7">>, <<"8">>)}
MeterAccents == {1, 3}

\* The meter and the accent pattern under every operation that sets them,
\* with the scheduler running.
NextMeter ==
  \/ \E v \in MeterSignatures : SetTs(v)
  \/ \E i \in MeterAccents : ToggleAccent(i)
  \/ DownbeatOnly
  \/ \E p \in MeterPayloads : ImportConfig(p)
  \/ \E slot \in StoreSlots : LoadPreset(slot)
  \/ Reset
  \/ Render
  \/ StartNow
  \/ SchedulerLoop(TRUE)

SpecMeter == InitDefault /\ [][NextMeter]_vars

\* Raw configurations as localStorage or an import may hold them: the one of
\* the self tests (lines 163-175), null, a number, wrong types and unknown
\* strings, numbers out of range, and the ends of the ranges.
RawConfigs ==
  { Obj([bpm |-> Num(85), ts |-> Str(Sig(<<"7">>, <<"8">>)), subdivision |-> Str("1/16"),
         swing |-> Num(10), volume |-> Num(55), polyEnabled |-> Bool(TRUE),
         polyBeats |-> Num(5), polySubdivision |-> Str("1/8"), polyVolume |-> Num(45),
         visualPulse |-> Bool(FALSE),
         accents |-> Arr(<<Bool(TRUE), Bool(FALSE), Bool(TRUE)>>)]),
    Null,
    Num(5),
    Obj([bpm |-> Str("fast"), ts |-> Str(Sig(<<"7">>, <<"x">>)), subdivision |-> Str("1/2"),
         swing |-> Null, volume |-> Obj([level |-> Num(3)]), polyEnabled |-> Num(1),
         polyBeats |-> Str("many"), polySubdivision |-> Num(8), polyVolume |-> Undefined,
         accents |-> Str("all")]),
    Obj([bpm |-> Num(301), ts |-> Str(Sig(<<"0">>, <<"4">>)), subdivision |-> Str("1/128"),
         swing |-> Num(80), volume |-> Num(101), polyBeats |-> Num(13),
         polyVolume |-> Num(0 - 1), ts2 |-> Null]),
    Obj([bpm |-> Num(20), ts |-> Str(Sig(<<"5">>, <<"1", "6">>)), subdivision |-> Str("1/64"),
         swing |-> Num(0), volume |-> Num(0), polyEnabled |-> Bool(FALSE),
         polyBeats |-> Num(2), polySubdivision |-> Str("1/32T"), polyVolume |-> Num(0)]),
    Obj([bpm |-> Num(300), ts |-> Str(Sig(<<"2">>, <<"2">>)), subdivision |-> Str("1/8T"),
         swing |-> Num(75), volume |-> Num(100), polyBeats |-> Num(12),
         polySubdivision |-> Str("1/4"), polyVolume |-> Num(100)]) }
InputBpms == {20, 299, 300}
InputSubdivisions == {SUBDIVISIONS[i] : i \in 1..Len(SUBDIVISIONS)}

\* The component mounted over any stored configuration.
InitInputs ==
  /\ \E raw \in RawConfigs : InitConfig(normalizeConfig(raw))
  /\ presetsRef = <<>>
  /\ InitRest

\* Every input of the validation and of the timing model, with a first pass
\* of the scheduler.
NextInputs ==
  \/ \E raw \in RawConfigs : ImportConfig(raw)
  \/ \E v \in InputBpms : SetBpm(v)
  \/ \E v \in InputSubdivisions : SetSubdivision(v)
  \/ StartNow
  \/ SchedulerLoop(TRUE)

SpecInputs == InitInputs /\ [][NextInputs]_vars

\* The writers of bpm: the slider, the buttons, the tap button, the training
\* bump, importConfig and loadPreset.  A JSON text may carry a number with a
\* fractional part.
TempoPayloads ==
  { Obj([bpm |-> NumFrac(85, 1)]),
    Obj([bpm |-> NumFrac(299, 1)]),
    Obj([bpm |-> NumFrac(300, 1)]),
    Obj([bpm |-> NumFrac(0, 1)]),
    Obj([bpm |-> Num(90)]) }
TempoTapGaps == {500}

NextTempo ==
  \/ \E p \in TempoPayloads : ImportConfig(p)
  \/ \E slot \in PresetSlots : LoadPreset(slot)
  \/ \E v \in SliderBpms : SetBpm(v)
  \/ \E d \in BumpDeltas : BumpBpm(d)
  \/ \E dt \in TempoTapGaps : Tap(dt, FALSE)
  \/ ToggleTempoLock
  \/ SetTrainingMode(~trainingMode)
  \/ \E v \in TrainingEverys : SetTrainingEvery(v)
  \/ StartNow
  \/ SchedulerLoop(TRUE)
  \/ Render

SpecTempo == InitDefault /\ [][NextTempo]_vars

\* Training mode under passes of the scheduler that come late: the
\* requestAnimationFrame callbacks of a page in the background wait while
\* the audio clock runs on.
TrainingPeriods == {1, 2}

NextTraining ==
  \/ SetTrainingMode(~trainingMode)
  \/ \E v \in TrainingPeriods : SetTrainingEvery(v)
  \/ \E v \in SliderBpms : SetBpm(v)
  \/ ToggleTempoLock
  \/ StartNow
  \/ Tick(MaxNow)
  \/ SchedulerLoop(TRUE)
  \/ Render

SpecTraining == InitDefault /\ [][NextTraining]_vars

\* The polyrhythm under a change of tempo, with the passes of the scheduler a
\* frame of 1/10 s apart or more: a pass that follows the one before it by
\* one frame finds both streams ahead of the clock.
FrameQuantum == TicksPerSecond \div 10
MaxFrames == 12
PolyConfig == Obj([bpm |-> Num(300), polyEnabled |-> Bool(TRUE)])

InitPoly ==
  /\ InitConfig(normalizeConfig(PolyConfig))
  /\ presetsRef = <<>>
  /\ InitRest

Frame ==
  /\ audioContext = "running" /\ now < MaxFrames * FrameQuantum
  /\ now' = now + FrameQuantum
  /\ lastOp' = "tick"
  /\ UNCHANGED <<configVars, runtimeVars, transportVars, logVars, displayVars, histVars,
                 storeVars, userOps>>

NextPoly ==
  \/ StartNow
  \/ Frame
  \/ SchedulerLoop(TRUE)
  \/ \E v \in LiveBpms : SetBpm(v)

SpecPoly == InitPoly /\ [][NextPoly]_vars

\* The same, with the polyrhythm switched off and on during the run.
NextResync ==
  \/ NextPoly
  \/ SetPolyEnabled(~polyEnabled)

SpecResync == InitPoly /\ [][NextResync]_vars

\* The fills of a pass over their inputs, a measure of zero beats among them:
\* parseBeats gives 0 beats for "0/4", a signature that neither the select nor
\* normalizeConfig lets through.
FillSignatures == {Sig(<<"4">>, <<"4">>), Sig(<<"0">>, <<"4">>)}

InitFill ==
  /\ \E sig \in FillSignatures :
        InitConfig([normalizeConfig(PolyConfig) EXCEPT !.ts = sig])
  /\ presetsRef = <<>>
  /\ InitRest

SpecFill == InitFill /\ [][NextResync]_vars

\* Export and presets by button and by keyboard, between changes of the
\* meter and of the accents.
NextKeys ==
  \/ ExportConfig
  \/ KeydownExport
  \/ \E slot \in StoreSlots : SavePreset(slot)
  \/ \E slot \in StoreSlots : KeydownSavePreset(slot)
  \/ \E slot \in StoreSlots : LoadPreset(slot)
  \/ \E v \in MeterSignatures : SetTs(v)
  \/ \E i \in MeterAccents : ToggleAccent(i)
  \/ Render

SpecKeys == InitDefault /\ [][NextKeys]_vars

\* The chain of callbacks: starts (also several waiting for one resume, which
\* arm one callback each), stops, the clock, and the callbacks, tracked by
\* rafIdRef or not.  The audio clock advances while the context runs (weak
\* fairness of Frame), and the browser runs an armed callback at its next
\* frame: CallbacksKeepFiring is WF_vars(SchedulerLoop(TRUE)) with the
\* enabling condition written out for the states where the callback the ref
\* names is armed and the step before was not already a pass.
CallbacksKeepFiring ==
  \/ []<>~(rafIdRef = "armed" /\ lastOp # "loop")
  \/ []<><<SchedulerLoop(TRUE)>>_vars

NextChain ==
  \/ StartNow
  \/ StartAwait
  \/ ResumeResolve
  \/ StopTransport
  \/ Frame
  \/ SchedulerLoop(TRUE)
  \/ SchedulerLoop(FALSE)

SpecChain ==
  /\ InitPoly /\ [][NextChain]_vars
  /\ WF_vars(Frame) /\ CallbacksKeepFiring

\* onClick={() => setPhase((p) => (p + 28) % 100)}, line 876; the effect of
\* lines 323-325 makes phaseRef follow.
Nudge ==
  /\ Edit
  /\ phase' = (phase + 28 * PhaseScale) % (100 * PhaseScale)
  /\ UNCHANGED <<configVars, runtimeVars, currentBeat>>

\* <Switch checked={visualPulse} onCheckedChange={setVisualPulse} />, line 1029
SetVisualPulse(v) ==
  /\ Edit
  /\ visualPulse' = v
  /\ UNCHANGED <<lockVars, tempoVars, meterVars, feelVars, levelVars, polyVars,
                 trainingVars, tapVars, runtimeVars, displayVars>>

\* The clock between two callbacks that follow each other closely (a fast
\* display, a frame that ran late): half a millisecond, at most twice after a
\* frame.
MomentQuantum == TicksPerSecond \div 2000
Moment ==
  /\ audioContext = "running" /\ now < MaxFrames * FrameQuantum
  /\ now % FrameQuantum < 2 * MomentQuantum
  /\ now' = now + MomentQuantum
  /\ lastOp' = "tick"
  /\ UNCHANGED <<configVars, runtimeVars, transportVars, logVars, displayVars, histVars,
                 storeVars, userOps>>

\* The visual pulse of a run: the start, the clock, the callbacks, the nudge
\* button and the switch of the pulse.
NextPulse ==
  \/ StartNow
  \/ Frame
  \/ Moment
  \/ SchedulerLoop(TRUE)
  \/ Nudge
  \/ SetVisualPulse(~visualPulse)

SpecPulse == InitPoly /\ [][NextPulse]_vars

----------------------------------------------------------------------------
(* Properties *)

\* The clicks of the latest scheduler pass, after the last one before it.
MainLog == mainPrev \o mainOut
PolyLog == polyPrev \o polyOut

StrictlyIncreasing(log) ==
  \A k \in 1..(Len(log) - 1) : log[k].time < log[k + 1].time

\* C1: whatever the interleaving of start calls, since the transport was last
\* stopped at most one runtime epoch has been created and at most one
\* scheduler callback is pending.
C1_StartIsIdempotent ==
  /\ epochsSinceStop <= 1
  /\ rafPending <= 1

\* C2: once stop has returned and until start is called again, the transport
\* is stopped and no click is dispatched.
C2_StopCancels ==
  stopReturned => (~isRunningRef /\ ~isRunning /\ ~clickedSinceStop)

\* C3: a start that ends rejected (the device cannot be created, or its
\* resume fails) leaves the transport stopped, arms no scheduler callback and
\* leaves every runtime field as it was.
C3_FailedStartLeavesState ==
  [][(StartCreateFail \/ ResumeReject) =>
       /\ ~isRunningRef' /\ ~isRunning'
       /\ rafPending' = rafPending /\ rafIdRef' = rafIdRef
       /\ UNCHANGED runtimeVars]_vars

C3_RejectedAfterAnEpoch ==
  /\ lastOp = "startRejected"
  /\ awaiting = 0
  /\ nextNoteTime > 0 /\ currentStep > 0

\* C4: a successful start leaves step index 0, measure count 0, poly step 0
\* and the three next times at the clock + 0.05 s, and the first click of
\* every epoch is step 0 of beat 0 at the epoch's start + 0.05 s.
C4_FreshEpoch ==
  /\ lastOp = "started" =>
       /\ currentStep = 0 /\ measureCount = 0 /\ polyStep = 0
       /\ nextNoteTime = now + startOffset
       /\ measureStart = now + startOffset
       /\ polyNextNoteTime = now + startOffset
  /\ (mainPrev = <<>> /\ mainOut # <<>>) =>
       /\ mainOut[1].stepIndex = 0 /\ mainOut[1].beatIndex = 0
       /\ mainOut[1].time = epochStart + startOffset

C4_FirstClickOfALaterEpoch ==
  /\ isRunningRef
  /\ epochStart > 0
  /\ mainPrev = <<>> /\ mainOut # <<>>

\* C5: while running with an unchanged configuration, consecutive main clicks
\* are strictly increasing in time and the gap after a click is the timing
\* model's duration of that click's step: baseSubdivision times the swing
\* factor of the step index.
C5_MainGapsFollowTiming ==
  isRunningRef =>
    \A timing \in {getTimingSnapshot} :
      \A k \in 1..(Len(MainLog) - 1) :
        /\ MainLog[k].time < MainLog[k + 1].time
        /\ MainLog[k + 1].time - MainLog[k].time =
             (timing.baseSubdivision *
                (IF timing.swingEnabled
                 THEN timing.swingFactors[(MainLog[k].stepIndex % 2) + 1]
                 ELSE SwingDen)) \div SwingDen

C5_SwungClicksAcrossPasses ==
  /\ isRunningRef
  /\ getTimingSnapshot.swingEnabled
  /\ mainPrev # <<>> /\ Len(mainOut) >= 2

\* C7: with bpm 120, 4/4, 1/8, swing 0 and the default accents, consecutive
\* main clicks are 0.25 s apart, the steps run 0..7 and wrap, steps 0,2,4,6
\* are the beat starts, and exactly the clicks at step 0 are accented.
C7_DefaultConfiguration ==
  /\ bpmRef = 120 /\ ts = Sig(<<"4">>, <<"4">>) /\ subdivision = "1/8" /\ swing = 0
  /\ accents = <<TRUE, FALSE, FALSE, FALSE>>

C7_DefaultPattern ==
  (isRunningRef /\ C7_DefaultConfiguration) =>
    /\ \A k \in 1..Len(MainLog) :
         /\ MainLog[k].stepIndex \in 0..7
         /\ MainLog[k].beatIndex = MainLog[k].stepIndex \div 2
         /\ MainLog[k].subIndex = MainLog[k].stepIndex % 2
         /\ MainLog[k].accented = (MainLog[k].stepIndex = 0)
    /\ \A k \in 1..(Len(MainLog) - 1) :
         /\ MainLog[k + 1].time - MainLog[k].time = TicksPerSecond \div 4
         /\ MainLog[k + 1].stepIndex = (MainLog[k].stepIndex + 1) % 8

C7_SecondMeasureReached ==
  /\ isRunningRef /\ C7_DefaultConfiguration
  /\ mainPrev # <<>> /\ mainPrev[1].stepIndex = 7
  /\ mainOut # <<>> /\ mainOut[1].stepIndex = 0 /\ mainOut[1].accented

\* C8: with an odd number of steps per beat, or swing 0, every step lasts
\* baseSubdivision; with an even number and swing s > 0, even steps last
\* baseSubdivision * (200 + s) / 200 and odd steps baseSubdivision *
\* (200 - s) / 200, the two factors sum to 2, and two consecutive steps
\* always last 2 * baseSubdivision, across the measure wrap too.
C8_SwingFactors ==
  \A timing \in {getTimingSnapshot} :
    /\ (timing.subdivisionsPerBeat % 2 = 1 \/ swing = 0) =>
         \A k \in 0..(Max(1, beatsRef * timing.subdivisionsPerBeat) - 1) :
           stepDurationOf(timing, k) = timing.baseSubdivision
    /\ (timing.subdivisionsPerBeat % 2 = 0 /\ swing > 0) =>
         /\ timing.swingFactors[1] + timing.swingFactors[2] = 2 * SwingDen
         /\ \A k \in 0..(Max(1, beatsRef * timing.subdivisionsPerBeat) - 1) :
              SwingDen * stepDurationOf(timing, k) =
                timing.baseSubdivision *
                  (IF k % 2 = 0 THEN SwingDen + Min(75, swing) ELSE SwingDen - Min(75, swing))
    /\ isRunningRef =>
         \A k \in 1..(Len(MainLog) - 2) :
           MainLog[k + 2].time - MainLog[k].time = 2 * timing.baseSubdivision

C8_SwungMeasureWrap ==
  /\ isRunningRef
  /\ getTimingSnapshot.swingEnabled
  /\ Len(MainLog) >= 3
  /\ \E k \in 2..(Len(MainLog) - 1) : MainLog[k].stepIndex = 0

C9_TempoLockFreezesBpm ==
  [][(tempoLock /\ tempoLock') => bpm' = bpm]_vars

C9_ImportedUnderLock ==
  /\ tempoLock
  /\ bpm = 120
  /\ swing = 75 /\ polyBeats = 2

\* C10: bpm is within [20,300], swing within [0,75], volume and poly volume
\* within [0,100], poly beats within [2,12] and the beats of a measure are at
\* least 1; 19 is clamped to 20, 301 to 300 and a swing of 80 to 75.
C10_Ranges ==
  /\ bpm \in 20..300
  /\ swing \in 0..75
  /\ volume \in 0..100
  /\ polyVolume \in 0..100
  /\ polyBeats \in 2..12
  /\ beatsRef >= 1
  /\ clamp(19, 20, 300) = 20
  /\ clamp(301, 20, 300) = 300
  /\ clamp(80, 0, 75) = 75

C10_ImportedOutOfRange ==
  /\ ~tempoLock
  /\ bpm = 20 /\ swing = 75 /\ volume = 100 /\ polyVolume = 0 /\ polyBeats = 2

\* The k-th smallest of the gaps between consecutive entries of a tap history.
TapGapsOf(h) == [i \in 1..(Len(h) - 1) |-> h[i + 1] - h[i]]
KthSmallest(d, k) ==
  CHOOSE x \in {d[i] : i \in 1..Len(d)} :
    /\ Cardinality({i \in 1..Len(d) : d[i] < x}) < k
    /\ Cardinality({i \in 1..Len(d) : d[i] <= x}) >= k

\* Twice the median of 3 or 4 gaps, or of 5 gaps less the smallest and the largest.
TwiceMedianGap(h) ==
  LET d == TapGapsOf(h)
  IN CASE Len(d) = 3 -> 2 * KthSmallest(d, 2)
       [] Len(d) = 4 -> KthSmallest(d, 2) + KthSmallest(d, 3)
       [] Len(d) = 5 -> 2 * KthSmallest(d, 3)

\* C18: a tap that is not ignored stores its time and keeps the last 6; with
\* fewer than 4 stored taps bpm is unchanged, with 4 or more bpm becomes
\* round(60000 / median) clamped to [20,300], the median taken over the gaps
\* (less the smallest and the largest when there are more than 4).  Taps at
\* 0,500,1000,1500 give 120, and so do taps at 0,500,1000,1500,2000,9999.
C18_TapTempo ==
  /\ [][(wallClock' # wallClock /\ ~tempoLock /\ ~isRunningRef) =>
         /\ Len(tapHistory') = Min(6, Len(tapHistory) + 1)
         /\ Last(tapHistory') = wallClock'
         /\ \A i \in 1..(Len(tapHistory') - 1) :
              tapHistory'[i] = tapHistory[Len(tapHistory) - (Len(tapHistory') - 1) + i]
         /\ Len(tapHistory') < 4 => bpm' = bpm
         /\ Len(tapHistory') >= 4 =>
              \A twice \in {TwiceMedianGap(tapHistory')} :
              \E r \in (120000 \div twice)..((120000 \div twice) + 1) :
                /\ 2 * r * twice - 240000 > 0 - twice
                /\ 2 * r * twice - 240000 <= twice
                /\ bpm' = Max(20, Min(300, r))]_vars
  /\ [](tapTempo(<<0, 500, 1000, 1500>>) = 120)
  /\ [](tapTempo(<<0, 500, 1000, 1500, 2000, 9999>>) = 120)

C18_SlidWindowOfUnevenTaps ==
  /\ ~tempoLock /\ ~isRunningRef
  /\ Len(tapHistory) = 6 /\ tapHistory[1] > 500
  /\ Last(tapHistory) = wallClock
  /\ KthSmallest(TapGapsOf(tapHistory), 1) # KthSmallest(TapGapsOf(tapHistory), 5)
  /\ bpm = 150

\* C19: a press of the tap button while the transport runs or the tempo is
\* locked changes neither bpm nor the stored tap history.
C19_TapIgnored ==
  [][(wallClock' # wallClock /\ (isRunningRef \/ tempoLock)) =>
       UNCHANGED <<bpm, tapHistory>>]_vars

C19_PressedUnderLock ==
  /\ tempoLock /\ ~isRunningRef
  /\ Len(tapHistory) >= 3
  /\ wallClock > Last(tapHistory)

\* The configuration fields that export and import carry.
exportedFields ==
  <<bpm, ts, subdivision, swing, volume, polyEnabled, polyBeats, polySubdivision,
    polyVolume, accents>>

\* C11: with the tempo lock not set, importing the text that export has just
\* produced leaves every configuration field as it is.
C11_ExportImportRoundTrip ==
  [][(~tempoLock /\ clipboard.t = "object" /\ clipboard = exportPayload /\ PasteConfig)
       => UNCHANGED exportedFields]_vars

\* The payload has no field f.
Absent(p, f) == Field(importPayload(p), f).t = "undefined"

\* C12: an import leaves every configuration field that its payload lacks as
\* it was, and leaves bpm as it was when the tempo lock is set.
C12_ImportMergesByField ==
  [][\A p \in StorePayloads :
       (p.t = "object" /\ ImportConfig(p)) =>
         /\ Absent(p, "bpm") => bpm' = bpm
         /\ Absent(p, "ts") => ts' = ts
         /\ Absent(p, "subdivision") => subdivision' = subdivision
         /\ Absent(p, "swing") => swing' = swing
         /\ Absent(p, "volume") => volume' = volume
         /\ Absent(p, "polyEnabled") => polyEnabled' = polyEnabled
         /\ Absent(p, "polyBeats") => polyBeats' = polyBeats
         /\ Absent(p, "polySubdivision") => polySubdivision' = polySubdivision
         /\ Absent(p, "polyVolume") => polyVolume' = polyVolume
         /\ Absent(p, "accents") => accents' = accents
         /\ tempoLock => bpm' = bpm]_vars

\* The answers that are no configuration object.
MalformedImports == {Malformed, Null, Num(5), Obj([version |-> Num(EXPORT_VERSION)])}

\* C13: an import answered with text that is not JSON, or with JSON that is
\* no configuration object, leaves every configuration field unchanged.
C13_MalformedImportRejected ==
  [][\A p \in MalformedImports : ImportConfig(p) => UNCHANGED exportedFields]_vars

\* The pattern of n beats with only the downbeat accented.
Downbeat(n) == [i \in 1..n |-> i = 1]

\* C17: an accent pattern that was not set has index 0 true and the others
\* false: in the initial state, after reset, and after an import whose
\* payload has no accent pattern.
C17_UnsetAccentsDefaultToDownbeat ==
  /\ [](userOps = 0 => accents = Downbeat(beatsRef))
  /\ [][Reset => accents' = Downbeat(beatsRef')]_vars
  /\ [][\A p \in StorePayloads :
          (p.t # "malformed" /\ Absent(p, "accents") /\ ImportConfig(p)) =>
            accents' = Downbeat(beatsRef')]_vars

\* C14: once the operations on the configuration have taken effect (no
\* update of the pattern is waiting for its render), the accent pattern has
\* as many entries as the measure has beats; and the pattern normalizeConfig
\* returns has as many entries as the time signature it returns has beats
\* (three accents with 7/8 come back as seven).
C14_AccentsLengthIsBeats ==
  /\ beatsRef = parseBeats(ts).beats
  /\ accentsQueue = <<>> => Len(accents) = beatsRef
  /\ \A p \in MeterPayloads \cup StorePayloads \cup ImportPayloads :
       p.t # "malformed" =>
         \A c \in {normalizeConfig(importPayload(p))} :
            Len(c.accents) = parseBeats(c.ts).beats
  /\ \A c \in {normalizeConfig(Obj([ts |-> Str(Sig(<<"7">>, <<"8">>)),
                                     accents |-> Arr(<<Bool(TRUE), Bool(FALSE), Bool(TRUE)>>)]))} :
       Len(c.accents) = 7 /\ c.ts = Sig(<<"7">>, <<"8">>)

\* Three accents imported with 7/8 over a measure that already had seven beats.
C14_ThreeAccentsImportedInSevenEight ==
  /\ accentsQueue = <<>>
  /\ ts = Sig(<<"7">>, <<"8">>)
  /\ accents = <<FALSE, TRUE, TRUE, FALSE, FALSE, FALSE, FALSE>>

\* C15: a pass of the scheduler finds as many entries in the accent pattern
\* as the measure has beats.
C15_PassSeesMatchingAccents ==
  [][lastOp' = "loop" => Len(accentsRef) = beatsRef]_vars

\* The fewest entries the pattern has while the queued resizes are applied.
RECURSIVE LeastLength(_, _)
LeastLength(queue, n) ==
  IF queue = <<>> THEN n ELSE LeastLength(Tail(queue), Min(n, Head(queue)))

\* C16: a resize keeps the entries by position: the positions the pattern
\* had throughout keep their value, and the positions it gains are false.
C16_ResizeKeepsPositions ==
  [][/\ (accentsQueue # <<>> /\ Render) =>
          \A kept \in {LeastLength(accentsQueue, Len(accents))} :
             /\ Len(accents') = Last(accentsQueue)
             /\ \A i \in 1..Len(accents') :
                   accents'[i] = IF i <= kept THEN accents[i] ELSE FALSE
     /\ \A t \in MeterAccents :
          ToggleAccent(t) =>
             /\ Len(accents') = beatsRef
             /\ \A i \in 1..Len(accents') :
                   accents'[i] = IF i = t + 1 THEN ~(i <= Len(accents) /\ accents[i])
                                 ELSE i <= Len(accents) /\ accents[i]]_vars

\* The pattern has shrunk to three entries, the second of them set by a
\* toggle, and its growth to seven is waiting for the render.
C16_ShrunkThenGrowing ==
  /\ accentsQueue = <<7>>
  /\ accents = <<TRUE, TRUE, FALSE>>

\* C20: when reset returns the transport is Stopped with no callback
\* pending and the configuration is the default one (tempo lock off, empty
\* tap history), and the transport stays Stopped until a later start.
C20_ResetStopsAndRestoresDefaults ==
  /\ [][Reset =>
          /\ ~isRunning' /\ ~isRunningRef' /\ rafIdRef' = "null"
          /\ ~tempoLock' /\ bpm' = 120 /\ bpmRef' = 120
          /\ ts' = Sig(<<"4">>, <<"4">>) /\ beatsRef' = 4 /\ unitRef' = 4
          /\ subdivision' = "1/8" /\ swing' = 0 /\ volume' = 70
          /\ ~polyEnabled' /\ polyBeats' = 3 /\ polySubdivision' = "1/4"
          /\ polyVolume' = 55 /\ ~trainingMode'
          /\ accents' = <<TRUE, FALSE, FALSE, FALSE>> /\ accentsQueue' = <<>>
          /\ tapHistory' = <<>>]_vars
  /\ [](resetReturned => ~isRunningRef /\ ~isRunning)

\* C21: stopTransport leaves every configuration field unchanged (tempo,
\* meter, subdivision, swing, volumes, polyrhythm, accents, training, tempo
\* lock, tap history, visual pulse) and sets the published phase and the
\* published beat index to 0.
C21_StopKeepsConfiguration ==
  [][StopTransport => (UNCHANGED configVars /\ phase' = 0 /\ currentBeat' = 0)]_vars

\* Stopped after a pass that dispatched the start of a later beat, past the
\* start of the measure, under an edited configuration.
C21_StoppedInsideAMeasure ==
  /\ lastOp = "stop" /\ ~isRunningRef
  /\ phase = 0 /\ currentBeat = 0
  /\ bpm = 240
  /\ now > measureStart
  /\ \E k \in 1..Len(mainOut) : mainOut[k].subIndex = 0 /\ mainOut[k].beatIndex > 0

\* A configuration in which every field is valid.
ValidConfig(c) ==
  /\ c.bpm \in 20..300
  /\ Includes(TIME_SIGNATURES, c.ts)
  /\ Includes(SUBDIVISIONS, c.subdivision)
  /\ c.swing \in 0..75
  /\ c.volume \in 0..100
  /\ c.polyEnabled \in BOOLEAN
  /\ c.polyBeats \in 2..12
  /\ Includes(SUBDIVISIONS, c.polySubdivision)
  /\ c.polyVolume \in 0..100
  /\ c.visualPulse \in BOOLEAN
  /\ \A i \in 1..Len(c.accents) : c.accents[i] \in BOOLEAN

\* The number supplied for field f is inside lo..hi.
SuppliedIn(raw, f, lo, hi) ==
  Field(raw, f).t = "number" /\ Field(raw, f).v \in lo..hi

\* C22: for every raw input normalizeConfig returns a configuration whose
\* fields are all valid; an unknown or malformed time signature comes back as
\* 4/4 with 4 beats, an unknown subdivision as 1/8; and every valid field that
\* was supplied comes back unchanged.
C22_NormalizeConfigTotal ==
  /\ ValidConfig([DefaultConfig EXCEPT
        !.bpm = bpm, !.ts = ts, !.subdivision = subdivision, !.swing = swing,
        !.volume = volume, !.polyEnabled = polyEnabled, !.polyBeats = polyBeats,
        !.polySubdivision = polySubdivision, !.polyVolume = polyVolume,
        !.visualPulse = visualPulse, !.accents = accents])
  /\ \A raw \in RawConfigs :
    \A c \in {normalizeConfig(raw)} :
      /\ ValidConfig(c)
      /\ IF Field(raw, "ts").t = "string" /\ Includes(TIME_SIGNATURES, Field(raw, "ts").v)
         THEN c.ts = Field(raw, "ts").v
         ELSE c.ts = Sig(<<"4">>, <<"4">>) /\ Len(c.accents) = 4
      /\ IF Field(raw, "subdivision").t = "string"
            /\ Includes(SUBDIVISIONS, Field(raw, "subdivision").v)
         THEN c.subdivision = Field(raw, "subdivision").v
         ELSE c.subdivision = "1/8"
      /\ (Field(raw, "polySubdivision").t = "string"
            /\ Includes(SUBDIVISIONS, Field(raw, "polySubdivision").v))
           => c.polySubdivision = Field(raw, "polySubdivision").v
      /\ Field(raw, "polyEnabled").t = "boolean" => c.polyEnabled = Field(raw, "polyEnabled").v
      /\ SuppliedIn(raw, "bpm", 20, 300) => c.bpm = Field(raw, "bpm").v
      /\ SuppliedIn(raw, "swing", 0, 75) => c.swing = Field(raw, "swing").v
      /\ SuppliedIn(raw, "volume", 0, 100) => c.volume = Field(raw, "volume").v
      /\ SuppliedIn(raw, "polyBeats", 2, 12) => c.polyBeats = Field(raw, "polyBeats").v
      /\ SuppliedIn(raw, "polyVolume", 0, 100) => c.polyVolume = Field(raw, "polyVolume").v

\* Strings that are no time signature.
UnparseableSignatures ==
  { <<"b", "a", "d">>, <<>>, <<"/">>, Sig(<<"x">>, <<"y">>), Sig(<<"7">>, <<"x">>),
    <<"7">>, Sig(<<>>, <<"8">>), Sig(<<"4">>, <<"4", "t", "h">>) }

StepsPerBeatTable ==
  ("1/4" :> 1) @@ ("1/8" :> 2) @@ ("1/8T" :> 3) @@ ("1/16" :> 4) @@ ("1/16T" :> 6)
  @@ ("1/32" :> 8) @@ ("1/32T" :> 12) @@ ("1/64" :> 16)

\* C24: steps per beat are 1, 2, 3, 4, 6, 8, 12, 16 for 1/4, 1/8, 1/8T, 1/16,
\* 1/16T, 1/32, 1/32T, 1/64 and 2 for every other value, and these are the
\* steps per beat the scheduler's timing uses.
C24_StepsPerBeatTable ==
  /\ \A v \in DOMAIN StepsPerBeatTable : getSubdivisionsPerBeat(v) = StepsPerBeatTable[v]
  /\ \A v \in {"1/2", "1/128", "1/4T", "", "8"} : getSubdivisionsPerBeat(v) = 2
  /\ subdivision \in DOMAIN StepsPerBeatTable
  /\ getTimingSnapshot.subdivisionsPerBeat = StepsPerBeatTable[subdivision]

\* A pass has dispatched a whole beat of sixteenth-note triplets: six steps,
\* and then the start of the second beat.
C24_SixStepsOfABeat ==
  /\ subdivision = "1/16T"
  /\ \E k \in 1..Len(mainOut) : mainOut[k].stepIndex = 5 /\ mainOut[k].subIndex = 5
  /\ \E k \in 1..Len(mainOut) :
       mainOut[k].stepIndex = 6 /\ mainOut[k].subIndex = 0 /\ mainOut[k].beatIndex = 1

\* The beat units of the supported time signatures.
SupportedUnits == {parseBeats(TIME_SIGNATURES[i]).unit : i \in 1..Len(TIME_SIGNATURES)}

\* C25: for every integer bpm in 20..300 and every beat unit of a supported
\* time signature beatDuration is (60/bpm)*(4/unit) seconds (to the tick),
\* tempoMs is beatDuration * 1000, and both decrease strictly as bpm grows.
C25_BeatDuration ==
  /\ userOps = 0 =>
     \A b \in 20..300 : \A u \in SupportedUnits :
       \A d \in {timingFor(b, u, "1/8", 0).beatDuration} :
         /\ d * b * u <= 240 * TicksPerSecond
         /\ (d + 1) * b * u > 240 * TicksPerSecond
         /\ tempoMsFor(b, u) = d
         /\ b < 300 => /\ timingFor(b + 1, u, "1/8", 0).beatDuration < d
                        /\ tempoMsFor(b + 1, u) < tempoMsFor(b, u)
  /\ bpmRefFrac = 0 =>
       getTimingSnapshot.beatDuration = timingFor(bpmRef, unitRef, "1/8", 0).beatDuration
  /\ (bpmRef = bpm /\ bpmRefFrac = bpmFrac /\ unitRef = unit) => tempoMs = getTimingSnapshot.beatDuration

\* The fastest tempo but one over sixteenth-note beats, where a step of bpm
\* changes the beat duration least.
C25_FastSixteenthBeats ==
  /\ bpmRef = 299 /\ unitRef = 16 /\ isRunningRef /\ mainOut # <<>>

\* C26: bpm is an integer in every reachable state, whatever sequence of
\* slider moves, increments, taps, training bumps, imports and preset loads
\* led to it: neither the state nor its synced ref holds a fractional part.
C26_BpmIsInteger == bpmFrac = 0 /\ bpmRefFrac = 0

\* C27: every main click a pass dispatches has stepIndex = currentStep mod
\* (beats * stepsPerBeat), with currentStep one more than the step index of the
\* click before it in the pass, beatIndex = stepIndex div stepsPerBeat and
\* subIndex = stepIndex mod stepsPerBeat; it is accented exactly when subIndex
\* is 0 and the accent pattern marks its beat, a beat the pattern has no entry
\* for counting as marked only if it is beat 0.
\* (Only a pass writes clicks to mainOut; a start empties it.)
C27_ClickIndices ==
  [][(mainOut' # mainOut) =>
       \A spb \in {getSubdivisionsPerBeat(subdivision)} :
       \A i \in 1..Len(mainOut') :
       \A c \in {mainOut'[i]} :
         /\ c.stepIndex = (IF i = 1 THEN currentStep ELSE mainOut'[i - 1].stepIndex + 1)
                             % (beats * spb)
         /\ c.beatIndex = c.stepIndex \div spb
         /\ c.subIndex = c.stepIndex % spb
         /\ c.accented <=> /\ c.subIndex = 0
                           /\ IF c.beatIndex < Len(accents) THEN accents[c.beatIndex + 1]
                                                             ELSE c.beatIndex = 0
         /\ c.subIndex # 0 => ~c.accented]_vars

\* A pass between a change of the time signature and the render that resizes
\* the pattern: it dispatched a beat the pattern has no entry for, and a step
\* inside a beat.
C27_BeatWithoutAnEntry ==
  /\ isRunningRef /\ accentsQueue # <<>>
  /\ \E i \in 1..Len(mainOut) :
        /\ mainOut[i].beatIndex >= Len(accents)
        /\ mainOut[i].subIndex = 0
        /\ ~mainOut[i].accented
  /\ \E i \in 1..Len(mainOut) : mainOut[i].subIndex # 0

\* The measure starts of a pass: the positions in its main clicks of the
\* steps with stepIndex 0.
MeasureStartsOf(main) == {i \in 1..Len(main) : main[i].stepIndex = 0}

\* C28: every main step with stepIndex 0 a pass dispatches sets measureStart
\* to its time and adds exactly 1 to measureCount, and with the polyrhythm
\* enabled resynchronises the poly stream to it, so that the pass dispatches a
\* poly click with step index 0 at the time of each measure start.
C28_MeasureBoundary ==
  [][(SchedulerLoop(TRUE) /\ isRunningRef /\ audioContext # "null") =>
       \A starts \in {MeasureStartsOf(mainOut')} :
         /\ measureCount' = measureCount + Cardinality(starts)
         /\ starts # {} =>
              \E last \in starts :
                 /\ \A i \in starts : i <= last
                 /\ measureStart' = mainOut'[last].time
         /\ starts = {} => measureStart' = measureStart
         /\ polyEnabled =>
              \A i \in starts :
                \E j \in 1..Len(polyOut') :
                   /\ polyOut'[j].time = mainOut'[i].time
                   /\ polyOut'[j].stepIndex = 0]_vars

\* The measure starts of a pass that qualify for a training bump: the k-th
\* measure start of the pass finds measureCount + k.
TrainingBoundariesOf(main) ==
  {k \in 1..Cardinality(MeasureStartsOf(main)) :
     /\ trainingMode /\ ~tempoLock /\ trainingEvery > 0
     /\ (measureCount + k) % trainingEvery = 0}

\* C29: with training mode active, the tempo not locked and trainingEvery > 0,
\* each measure start a pass dispatches at which measureCount mod
\* trainingEvery = 0 raises bpm by trainingStep, clamped to [20, 300], one
\* raise for each such measure start of the pass, and a pass without one
\* leaves bpm alone.  Stated for the passes that begin with bpmRef holding
\* the value of bpm.
C29_TrainingBump ==
  [][(SchedulerLoop(TRUE) /\ isRunningRef /\ audioContext # "null"
        /\ mounted /\ bpmRef = bpm /\ bpmRefFrac = bpmFrac) =>
       \A q \in {Cardinality(TrainingBoundariesOf(mainOut'))} :
          /\ bpm' = clamp(bpm + q * trainingStep, 20, 300)
          /\ q = 0 => bpmFrac' = bpmFrac]_vars

\* C30: one cycle of the polyrhythm lasts one main measure, polyStepDuration *
\* (polyBeats * polyStepsPerBeat) = beatDuration * beats (here to within the
\* truncation of one tick per poly step), and every poly click with step
\* index 0 that a pass dispatches while the polyrhythm is enabled is at the
\* time of a main measure start of that pass, also after a change of tempo.
\* Stated for the passes that find both streams ahead of the clock.
C30_PolyCyclePerMeasure ==
  [][(SchedulerLoop(TRUE) /\ isRunningRef /\ audioContext # "null" /\ polyEnabled
        /\ nextNoteTime >= now /\ polyNextNoteTime >= now) =>
       \A timing \in {getTimingSnapshot} :
       \A measureDuration \in {timing.beatDuration * beatsRef} :
         /\ polyStepDurationOf(timing) * polyTotalSteps <= measureDuration
         /\ measureDuration < (polyStepDurationOf(timing) + 1) * polyTotalSteps
         /\ \A j \in 1..Len(polyOut') :
              polyOut'[j].stepIndex = 0 =>
                \E i \in MeasureStartsOf(mainOut') :
                   mainOut'[i].time = polyOut'[j].time]_vars

\* C31: a poly stream whose next time is more than scheduleAhead behind the
\* clock when its fill begins (after the main fill, which may have moved it to
\* a measure start) restarts at now + 0.01 s with step index 0, so no pass
\* dispatches a poly click earlier than now - scheduleAhead, whether the
\* polyrhythm was enabled at the start or in the middle of a run.
C31_PolyFallBehind ==
  [][(polyOut' # polyOut) =>
       /\ \A j \in 1..Len(polyOut') : polyOut'[j].time >= now - scheduleAhead
       /\ \A starts \in {MeasureStartsOf(mainOut')} :
          \A p \in {IF starts = {} THEN polyNextNoteTime ELSE measureStart'} :
            (polyOut' # <<>> /\ p < now - scheduleAhead) =>
               /\ polyOut'[1].time = now + polyResyncOffset
               /\ polyOut'[1].stepIndex = 0]_vars

\* A pass that found the poly stream behind: the poly click before it is older
\* than now - scheduleAhead and the pass begins again at now + 0.01 s.
C31_ResyncedAfterALatePass ==
  /\ lastOp = "loop" /\ isRunningRef /\ polyEnabled
  /\ polyPrev # <<>> /\ polyPrev[1].time < now - scheduleAhead
  /\ polyOut # <<>>
  /\ polyOut[1].time = now + polyResyncOffset /\ polyOut[1].stepIndex = 0

C33_LookAheadHorizon ==
  (lastOp = "loop" /\ isRunningRef) =>
     /\ \A i \in 1..Len(mainOut) : mainOut[i].time < now + scheduleAhead
     /\ \A j \in 1..Len(polyOut) : polyOut[j].time < now + scheduleAhead
     /\ nextNoteTime >= now + scheduleAhead
     /\ polyEnabled => polyNextNoteTime >= now + scheduleAhead

\* A pass that dispatched main and poly clicks ahead of the clock.
C33_ClicksAheadOfTheClock ==
  /\ lastOp = "loop" /\ isRunningRef /\ polyEnabled
  /\ mainOut # <<>> /\ mainOut[Len(mainOut)].time > now
  /\ polyOut # <<>> /\ polyOut[Len(polyOut)].time > now
  /\ measureCount >= 2

\* C34: while running, a pass re-arms exactly one callback (it consumes one
\* and arms one); with the callbacks firing and the clock advancing, a main
\* click later than every time t the clock takes is dispatched in the end,
\* unless the transport is stopped; and while the transport is not running no
\* step dispatches a click or arms a callback: a callback that fires then
\* only goes away.
C34_ChainRearmsWhileRunning ==
  /\ [][(isRunningRef /\ lastOp' = "loop" /\ (mainOut' # mainOut \/ rafIdRef' # rafIdRef))
          => (rafPending' = rafPending /\ rafIdRef' = "armed")]_vars
  /\ [][(~isRunningRef /\ ~isRunningRef')
          => /\ UNCHANGED <<logVars, runtimeVars>>
             /\ rafPending' <= rafPending
             /\ rafIdRef' # "armed"]_vars
  /\ (isRunningRef /\ now < MaxFrames * FrameQuantum)
        ~> (\/ ~isRunningRef
            \/ \E i \in 1..Len(mainOut) : mainOut[i].time > MaxFrames * FrameQuantum)

\* A stopped transport after a run: clicks were dispatched over several
\* frames, stopTransport cancelled the tracked callback, and a callback armed
\* by an earlier start fired and found the transport not running.
C34_CallbackAfterStop ==
  /\ ~isRunningRef /\ lastOp = "loopIdle" /\ rafPending = 0
  /\ mainOut # <<>> /\ now >= 3 * FrameQuantum

\* C35: every pass takes its step durations from the configuration in effect
\* at that pass: the first click of the pass is at the next main time the
\* pass found, and the gap after each click of the pass (to the next click,
\* or to the next main time the pass leaves) is the timing model's duration
\* of that click's step for the bpm, unit, subdivision and swing of the
\* state in which the pass runs; an edit of the configuration changes
\* neither the clicks dispatched nor the next main time.
C35_PassUsesCurrentConfiguration ==
  /\ [][(lastOp' = "loop" /\ mainOut' # mainOut /\ bpm = bpmRef /\ bpmFrac = bpmRefFrac) =>
          \A timing \in {timingAt(bpm, bpmFrac, parseBeats(ts).unit, subdivision, swing)} :
            \A k \in 1..Len(mainOut') :
              /\ k = 1 => mainOut'[k].time = nextNoteTime
              /\ (IF k < Len(mainOut') THEN mainOut'[k + 1].time ELSE nextNoteTime')
                    - mainOut'[k].time = stepDurationOf(timing, mainOut'[k].stepIndex)]_vars
  /\ [][(<<tempoVars, ts, feelVars>>' # <<tempoVars, ts, feelVars>> /\ lastOp' = lastOp)
          => UNCHANGED <<logVars, nextNoteTime>>]_vars

\* A pass after a change of tempo during the run: the click before the pass
\* and the first click of the pass are a step of the old tempo apart (0.25 s
\* at 120 bpm in eighths), the pass leaves the next main time a step of the new
\* tempo (0.125 s at 240 bpm) after its last click.
C35_PassAfterTempoChange ==
  /\ lastOp = "loop" /\ isRunningRef /\ bpm = 240 /\ subdivision = "1/8" /\ swing = 0
  /\ ts = Sig(<<"4">>, <<"4">>)
  /\ mainPrev # <<>> /\ mainOut # <<>>
  /\ mainOut[1].time - mainPrev[1].time = TicksPerSecond \div 4
  /\ nextNoteTime - mainOut[Len(mainOut)].time = TicksPerSecond \div 8

\* What line 600 computes after the fills of a pass that leaves the measure
\* start at mstart.
PhaseAt(mstart) ==
  LET measureDuration == getTimingSnapshot.beatDuration * beatsRef
  IN clamp((Max(0, now - mstart) * 100 * PhaseScale) \div measureDuration,
           0, 100 * PhaseScale)

\* C36: the published phase is within 0..100 percent in every state, the
\* states after the nudge button among them; a pass of the running scheduler
\* with the visual pulse enabled publishes clamp(100 * (now - measure start) /
\* measure duration, 0, 100) when that differs from the phase published last
\* by more than 0.1 and leaves the phase as it was otherwise; a pass with the
\* visual pulse disabled leaves the phase at 0.
C36_PhasePublished ==
  /\ [](phase >= 0 /\ phase <= 100 * PhaseScale)
  /\ [][(SchedulerLoop(TRUE) /\ isRunningRef /\ audioContext # "null") =>
          IF visualPulse
          THEN \A target \in {PhaseAt(measureStart')} :
                 phase' = IF target - phase > phaseThreshold \/ phase - target > phaseThreshold
                          THEN target ELSE phase
          ELSE phase' = 0]_vars

\* A pass that did not republish: the phase it computed is within 0.1 of the
\* phase published before and differs from it.
C36_PhaseWithinThreshold ==
  /\ lastOp = "loop" /\ isRunningRef /\ visualPulse /\ phase > 0
  /\ PhaseAt(measureStart) # phase
  /\ PhaseAt(measureStart) - phase <= phaseThreshold
  /\ phase - PhaseAt(measureStart) <= phaseThreshold

\* The beat starts among the main clicks on record.
BeatStartsOf(main) == {i \in 1..Len(main) : main[i].subIndex = 0}

\* C37: while running, the published beat index is the beat index of the
\* beat-start step dispatched last, and lies in 0..beats - 1.
C37_BeatIndexFollowsDispatch ==
  (isRunningRef /\ BeatStartsOf(MainLog) # {}) =>
     \A last \in BeatStartsOf(MainLog) :
       (\A i \in BeatStartsOf(MainLog) : i <= last) =>
          /\ currentBeat = MainLog[last].beatIndex
          /\ currentBeat \in 0..(beatsRef - 1)

\* C38: a handler that writes the configuration (an edit of the panel: it
\* uses up a user operation and is no step of the transport) leaves the
\* runtime of the scheduler as it was: next main time, main step index,
\* measure start, measure count, poly next time and poly step index.
C38_ConfigurationWritesLeaveRuntime ==
  [][(userOps' = userOps + 1 /\ lastOp' = lastOp /\ configVars' # configVars)
       => UNCHANGED runtimeVars]_vars

\* Math.max(1, beatsRef.current * timing.subdivisionsPerBeat), line 530.
TotalStepsNow == Max(1, beatsRef * getSubdivisionsPerBeat(subdivisionRef))

\* C39: within an epoch (meter and subdivision as they were at its start),
\* the first main click dispatched has step index 0 and every main click has
\* the step index after that of the click before it, modulo totalSteps, also
\* when a pass is late and dispatches steps whose time has passed.
C39_StepsConsecutive ==
  isRunningRef =>
     /\ (mainPrev = <<>> /\ mainOut # <<>>) => mainOut[1].stepIndex = 0
     /\ \A k \in 1..(Len(MainLog) - 1) :
          MainLog[k + 1].stepIndex = (MainLog[k].stepIndex + 1) % TotalStepsNow

\* A late pass: it dispatched a step whose time had passed, and its clicks
\* run over the end of a measure into step 0 of the next.
C39_LatePassAcrossMeasures ==
  /\ lastOp = "loop" /\ isRunningRef /\ TotalStepsNow > 1
  /\ \E i \in 1..Len(mainOut) : mainOut[i].time < now
  /\ \E k \in 1..(Len(MainLog) - 1) :
        MainLog[k].stepIndex = TotalStepsNow - 1 /\ MainLog[k + 1].stepIndex = 0

\* A normalized snapshot as export and presets carry it holds the signature
\* and the accent pattern of the state.
SnapshotIsCurrent(raw) ==
  /\ Field(raw, "ts") = Str(ts)
  /\ Field(raw, "accents") = Arr([i \in 1..Len(accents) |-> Bool(accents[i])])

\* C40: a snapshot taken for export or for a preset, by button or by
\* keyboard, once the render of the last edit is complete, holds the time
\* signature of the state and the accent pattern of the state, entry for
\* entry.
C40_SnapshotHoldsSignatureAndAccents ==
  [][(accentsQueue = <<>>) =>
       /\ (clipboard' # clipboard) => SnapshotIsCurrent(Field(clipboard', "config"))
       /\ \A i \in 1..Len(presetsRef') :
            (presetsRef'[i].t = "object" /\ PresetAt(i - 1) # presetsRef'[i])
               => SnapshotIsCurrent(presetsRef'[i])]_vars

====
